---- MODULE Spec2Model ----
(***************************************************************************)
(* picokit: a PIC18 ICSP programmer firmware.                              *)
(*                                                                         *)
(* The model follows the three layers of the firmware:                     *)
(*   protocol.c  proto_crc8, proto_read_request, proto_send_response       *)
(*   icsp.c      the ICSP engine (enter/exit LVP, command encoding,        *)
(*               erase, read, program)                                     *)
(*   main.c      the command handlers and the dispatcher loop              *)
(*                                                                         *)
(* Machine integers: TLC's integers are 32-bit signed, so a uint32_t is    *)
(* written as the int with the same bit pattern (two's complement), and    *)
(* \div and % are floor division and modulus, which on a negative int are  *)
(* the arithmetic shift and the low bits of its two's complement pattern.  *)
(***************************************************************************)
EXTENDS Integers, Sequences, FiniteSets, TLC

VARIABLES
    pc,          \* position of main()'s loop / of proto_read_request
    req,         \* proto_request_t req: cmd and len (main.c:234)
    payload,     \* req.payload[0..]: the bytes the current read has stored
    lo,          \* int lo of proto_read_request, between the two getchar()s
    i,           \* the uint16_t loop counter of the payload / drain loop
    wire,        \* transport: the undelivered rest of the frame in flight
    link,        \* transport: FALSE once getchar() has reported an error
    lvp_active,  \* icsp.c:13
    mclr,        \* level of the target's reset line (mclrPin)
    tx,          \* response frames written since the current read began
    bus,         \* hardware events since the current read began
    rd,          \* history of the current proto_read_request call
    u            \* harness of the single-function specifications

vars == <<pc, req, payload, lo, i, wire, link, lvp_active, mclr, tx, bus, rd, u>>

(***************************************************************************)
(* Machine arithmetic                                                      *)
(***************************************************************************)
Byte == 0..255

Min(a, b) == IF a < b THEN a ELSE b

U8(x) == x % 256

U16(x) == x % 65536

Shr(x, n) == x \div (2 ^ n)

Shl(x, n) == x * (2 ^ n)

\* the operators &, | and ^ on 32-bit two's-complement integers, byte by byte
And8(p, q) ==
    (p % 2) * (q % 2)
      + 2 * ((p \div 2) % 2) * ((q \div 2) % 2)
      + 4 * ((p \div 4) % 2) * ((q \div 4) % 2)
      + 8 * ((p \div 8) % 2) * ((q \div 8) % 2)
      + 16 * ((p \div 16) % 2) * ((q \div 16) % 2)
      + 32 * ((p \div 32) % 2) * ((q \div 32) % 2)
      + 64 * ((p \div 64) % 2) * ((q \div 64) % 2)
      + 128 * ((p \div 128) % 2) * ((q \div 128) % 2)

\* a bit of p | q is set when it is set in p or in q; a bit of p ^ q when in one only
Or8(p, q) == p + q - And8(p, q)

Xor8(p, q) == p + q - 2 * And8(p, q)

\* byte k of x (k = 0 the lowest); the division rounds down, so a negative x
\* gives the bytes of its two's-complement form
ByteOf(x, k) == (x \div (256 ^ k)) % 256

\* the 32-bit integer with these bytes, b0 the lowest
Int32(b0, b1, b2, b3) ==
    b0 + 256 * b1 + 65536 * b2 + 16777216 * (IF b3 >= 128 THEN b3 - 256 ELSE b3)

BitAnd(a, b) ==
    Int32(And8(ByteOf(a, 0), ByteOf(b, 0)), And8(ByteOf(a, 1), ByteOf(b, 1)),
          And8(ByteOf(a, 2), ByteOf(b, 2)), And8(ByteOf(a, 3), ByteOf(b, 3)))

BitOr(a, b) ==
    Int32(Or8(ByteOf(a, 0), ByteOf(b, 0)), Or8(ByteOf(a, 1), ByteOf(b, 1)),
          Or8(ByteOf(a, 2), ByteOf(b, 2)), Or8(ByteOf(a, 3), ByteOf(b, 3)))

BitXor(a, b) ==
    Int32(Xor8(ByteOf(a, 0), ByteOf(b, 0)), Xor8(ByteOf(a, 1), ByteOf(b, 1)),
          Xor8(ByteOf(a, 2), ByteOf(b, 2)), Xor8(ByteOf(a, 3), ByteOf(b, 3)))

Repeat(b, n) == [k \in 1..n |-> b]

\* TRUE, and v has been evaluated. TLC evaluates an argument where it is first
\* used; a loop is evaluated as its first half, then, on the evaluated result, its
\* second half, and a run of statements <<h1, h2, ...>> in the order they execute,
\* which keeps the evaluation of a long handler shallow
Evaluated(v) == v = v

(***************************************************************************)
(* protocol.h                                                              *)
(***************************************************************************)
CMD_DIAG == 1
CMD_ERASE == 2
CMD_WRITE_PAGE == 3
CMD_WRITE_CONFIG == 4
CMD_WRITE_EEPROM == 5
CMD_READ == 6
CMD_RESET_TARGET == 7
CMD_TEST_EEPROM == 8
CMD_VERSION == 9

STATUS_OK == 0
STATUS_ERR_CMD == 1
STATUS_ERR_CRC == 2
STATUS_ERR_TARGET == 3
STATUS_ERR_PAYLOAD == 5

PROTO_MAX_PAYLOAD == 256

\* uint32 from 4 little-endian bytes (p is the 1-based sequence of the bytes);
\* a value >= 2^31 is written as the int with the same bit pattern.
proto_get_u32(p) ==
    p[1] + Shl(p[2], 8) + Shl(p[3], 16)
         + Shl(IF p[4] >= 128 THEN p[4] - 256 ELSE p[4], 24)

proto_get_u16(p) == BitOr(p[1], Shl(p[2], 8))

(***************************************************************************)
(* protocol.c: proto_crc8                                                  *)
(***************************************************************************)
\* the loop body with the polynomial 0x31 in place of 0x07
Crc8StepPoly31(crc) ==
    IF BitAnd(crc, 128) # 0 THEN U8(BitXor(Shl(crc, 1), 49)) ELSE U8(Shl(crc, 1))

\* if (crc & 0x80) crc = (crc << 1) ^ 0x07; else crc <<= 1;   on a uint8_t
Crc8Step(crc) ==
    IF BitAnd(crc, 128) # 0 THEN U8(BitXor(Shl(crc, 1), 7)) ELSE U8(Shl(crc, 1))

\* the iterations a <= j < b of the inner loop, for (j = 0; j < 8; j++)
RECURSIVE Crc8Bits(_, _, _)
Crc8Bits(crc, a, b) ==
    IF a >= b THEN crc
    ELSE IF b = a + 1 THEN Crc8Step(crc)
    ELSE LET c1 == Crc8Bits(crc, a, (a + b) \div 2)
         IN  IF Evaluated(c1) THEN Crc8Bits(c1, (a + b) \div 2, b) ELSE c1

\* the iterations a <= i < b of the outer loop, for (i = 0; i < len; i++), run in
\* order (a long run as its first half, then its second half); data[i] of the code
\* is data[i + 1]
RECURSIVE Crc8Loop(_, _, _, _)
Crc8Loop(data, a, b, crc) ==
    IF a >= b THEN crc
    ELSE IF b = a + 1 THEN Crc8Bits(U8(BitXor(crc, data[a + 1])), 0, 8)
    ELSE LET c1 == Crc8Loop(data, a, (a + b) \div 2, crc)
         IN  IF Evaluated(c1) THEN Crc8Loop(data, (a + b) \div 2, b, c1) ELSE c1

proto_crc8(data, len) == IF Evaluated(data) THEN Crc8Loop(data, 0, len, 0) ELSE 0

(***************************************************************************)
(* protocol.c: proto_send_response                                         *)
(* The bytes putchar() writes, in order. Every caller that passes len > 0  *)
(* passes a buffer, so the memcpy of line 81 runs whenever len > 0.        *)
(***************************************************************************)
\* the header with the length written high byte first
SendHeaderBigEndian(status, len) == <<status, U8(Shr(len, 8)), U8(BitAnd(len, 255))>>

SendHeader(status, len) == <<status, U8(BitAnd(len, 255)), U8(Shr(len, 8))>>

proto_send_response(status, data, len) ==
    LET frame == SendHeader(status, len)
                   \o (IF len > 0 THEN SubSeq(data, 1, len) ELSE <<>>)
        total == U16(4 + len)
    IN  IF Evaluated(frame)
          THEN SubSeq(frame \o <<proto_crc8(frame, 3 + len)>>, 1, total)
          ELSE <<>>

proto_send_ok == proto_send_response(STATUS_OK, <<>>, 0)

proto_send_error(status) == proto_send_response(status, <<>>, 0)

(***************************************************************************)
(* icsp.h, target.h, main.c: opcodes, regions, memory map                  *)
(***************************************************************************)
ICSP_COMMAND_LOAD_PC == 128
ICSP_COMMAND_BULK_ERASE == 24
ICSP_COMMAND_PAGE_ERASE == 240
ICSP_COMMAND_READ_DATA == 252
ICSP_COMMAND_READ_DATA_INCPC == 254
ICSP_COMMAND_INCREMENT_ADDRESS == 248
ICSP_COMMAND_LOAD_DATA == 0
ICSP_COMMAND_LOAD_DATA_INCPC == 2
ICSP_COMMAND_BEGIN_PROG_INT == 224

ICSP_ERASE_REGION_EEPROM == 1
ICSP_ERASE_REGION_FLASH == 2
ICSP_ERASE_REGION_USER_ID == 4
ICSP_ERASE_REGION_CONFIG == 8

FLASH_ROW_WORDS == 64
FLASH_ROW_BYTES == 128

\* icsp_init(spi0, 29, 7, 6, 4): the data-in pin main() configures
dataInPin == 4

\* the unlock key "MCHP"
LvpKey == <<77, 67, 72, 80>>

\* VERSION_STRING "picokit 1.0"
VERSION_STRING == <<112, 105, 99, 111, 107, 105, 116, 32, 49, 46, 48>>

(***************************************************************************)
(* The physical link. A hardware state h carries the session flag, the     *)
(* reset line, the events so far, the response frames so far and the       *)
(* target's answers (h.tgt) to the reads of the running handler.           *)
(* An event records the session flag at the moment it happens:             *)
(*   gpio   op = the level put on the reset line                           *)
(*   sleep  arg = the delay in microseconds                                *)
(*   write  spi_write_blocking: op = the first byte, arg = the int payload *)
(*          handed to icsp_send_command (-1: none), bytes = what is sent   *)
(*   read   spi_read_blocking: bytes = the 3 bytes clocked in              *)
(***************************************************************************)
Ev(k, op, arg, bytes, h) ==
    [k |-> k, op |-> op, arg |-> arg, bytes |-> bytes, lvp |-> h.lvp]

Emit(h, e) == [h EXCEPT !.bus = Append(@, e)]

gpio_put_mclr(h, level) ==
    [Emit(h, Ev("gpio", level, -1, <<>>, h)) EXCEPT !.mclr = level]

sleep_us(h, us) == Emit(h, Ev("sleep", -1, us, <<>>, h))

sleep_ms(h, ms) == sleep_us(h, ms * 1000)

spi_write_blocking(h, arg, bytes) == Emit(h, Ev("write", bytes[1], arg, bytes, h))

\* the k-th read of a handler is answered by the target's k-th triple
TargetBytes(t, k) == IF k <= Len(t.first) THEN t.first[k] ELSE t.rest

spi_read_blocking(h) ==
    LET d == TargetBytes(h.tgt, h.n + 1)
    IN  [Emit(h, Ev("read", -1, -1, d, h)) EXCEPT !.n = @ + 1, !.data = d]

Send(h, frame) == [h EXCEPT !.tx = Append(@, frame)]

(***************************************************************************)
(* icsp.c                                                                  *)
(***************************************************************************)
\* icsp_enter_lvp without the early return of an active session
icsp_enter_lvp_always(h) ==
    LET h1 == gpio_put_mclr(h, 0)
        h2 == sleep_ms(h1, 50)
        h3 == spi_write_blocking(h2, -1, LvpKey)
        h4 == sleep_ms(h3, 5)
    IN  IF Evaluated(<<h1, h2, h3, h4>>) THEN [h4 EXCEPT !.lvp = TRUE] ELSE h4

icsp_enter_lvp(h) ==
    IF h.lvp THEN h
    ELSE LET h1 == gpio_put_mclr(h, 0)
             h2 == sleep_ms(h1, 50)
             h3 == spi_write_blocking(h2, -1, LvpKey)
             h4 == sleep_ms(h3, 5)
         IN  IF Evaluated(<<h1, h2, h3, h4>>) THEN [h4 EXCEPT !.lvp = TRUE] ELSE h4

icsp_exit_lvp(h) ==
    IF ~h.lvp THEN h
    ELSE LET h1 == gpio_put_mclr(h, 1)
             h2 == sleep_ms(h1, 5)
         IN  [h2 EXCEPT !.lvp = FALSE]

\* payload << 1 on a 32-bit int: the bits that leave the int are dropped
\* (what gcc emits for a signed shift)
IntShl1(x) == (x % (2 ^ 30)) * 2 - (IF (x \div (2 ^ 30)) % 2 = 1 THEN 2 ^ 30 ELSE 0) * 2

EncodePayload(x) ==
    <<U8(BitAnd(Shr(x, 15), 255)),
      U8(BitAnd(Shr(x, 7), 255)),
      U8(BitAnd(IntShl1(x), 255))>>

icsp_send_command(h, cmd, x) ==
    IF x >= 0
      THEN spi_write_blocking(h, x, <<cmd>> \o EncodePayload(x))
      ELSE spi_write_blocking(h, x, <<cmd>>)

icsp_cmd_loadpc(h, a) == icsp_send_command(h, ICSP_COMMAND_LOAD_PC, a)

EraseRegion(h, regions, bit, base) ==
    IF BitAnd(regions, bit) # 0
      THEN sleep_ms(icsp_send_command(icsp_cmd_loadpc(h, base),
                                      ICSP_COMMAND_BULK_ERASE, -1), 26)
      ELSE h

\* the erase with FLASH taken before CONFIG
icsp_cmd_erase_flash_first(h, regions) ==
    LET h1 == EraseRegion(h, regions, ICSP_ERASE_REGION_FLASH, 0)
        h2 == EraseRegion(h1, regions, ICSP_ERASE_REGION_CONFIG, 3145728)
        h3 == EraseRegion(h2, regions, ICSP_ERASE_REGION_EEPROM, 3211264)
    IN  IF Evaluated(<<h1, h2, h3>>)
          THEN EraseRegion(h3, regions, ICSP_ERASE_REGION_USER_ID, 2097152)
          ELSE h3

icsp_cmd_erase(h, regions) ==
    LET h1 == EraseRegion(h, regions, ICSP_ERASE_REGION_CONFIG, 3145728)
        h2 == EraseRegion(h1, regions, ICSP_ERASE_REGION_FLASH, 0)
        h3 == EraseRegion(h2, regions, ICSP_ERASE_REGION_EEPROM, 3211264)
    IN  IF Evaluated(<<h1, h2, h3>>)
          THEN EraseRegion(h3, regions, ICSP_ERASE_REGION_USER_ID, 2097152)
          ELSE h3

icsp_cmd_erase_page(h) ==
    sleep_ms(icsp_send_command(h, ICSP_COMMAND_PAGE_ERASE, -1), 11)

\* the decoding without the shift that drops the stop bit
DecodeDataNoStopBit(d) == U16(BitOr(BitOr(Shl(d[1], 15), Shl(d[2], 7)), d[3]))

\* (data[0] << 15) | (data[1] << 7) | (data[2] >> 1), returned as uint16_t
DecodeData(d) == U16(BitOr(BitOr(Shl(d[1], 15), Shl(d[2], 7)), Shr(d[3], 1)))

\* the value returned is left in h.val
icsp_cmd_read_data(h, increment_pc) ==
    IF dataInPin = -1 THEN [h EXCEPT !.val = 65535]
    ELSE LET cmd == IF increment_pc THEN ICSP_COMMAND_READ_DATA_INCPC
                                    ELSE ICSP_COMMAND_READ_DATA
             h1 == spi_read_blocking(spi_write_blocking(h, -1, <<cmd>>))
         IN  [h1 EXCEPT !.val = DecodeData(h1.data)]

icsp_cmd_increment_pc(h) ==
    icsp_send_command(h, ICSP_COMMAND_INCREMENT_ADDRESS, -1)

icsp_cmd_write_data(h, value, increment_pc) ==
    LET h1 == icsp_send_command(h, IF increment_pc THEN ICSP_COMMAND_LOAD_DATA_INCPC
                                                   ELSE ICSP_COMMAND_LOAD_DATA, value)
        h2 == icsp_send_command(h1, ICSP_COMMAND_BEGIN_PROG_INT, -1)
    IN  sleep_us(h2, 75)

icsp_get_device_id(h) ==
    icsp_cmd_read_data(sleep_us(icsp_cmd_loadpc(h, 4194302), 1), FALSE)

icsp_get_revision_id(h) ==
    icsp_cmd_read_data(sleep_us(icsp_cmd_loadpc(h, 4194300), 1), FALSE)

\* data[k] = icsp_cmd_read_data(true) & 0xFF;
Read8Body(h, k) ==
    LET h1 == icsp_cmd_read_data(h, TRUE)
    IN  [h1 EXCEPT !.buf = Append(@, <<k, U8(BitAnd(h1.val, 255))>>)]

\* the iterations a <= i < b of for (i = 0; i < size; i++), in order
RECURSIVE Read8Loop(_, _, _)
Read8Loop(h, a, b) ==
    IF a >= b THEN h
    ELSE IF b = a + 1 THEN Read8Body(h, a)
    ELSE LET h1 == Read8Loop(h, a, (a + b) \div 2)
         IN  IF Evaluated(h1) THEN Read8Loop(h1, (a + b) \div 2, b) ELSE h1

icsp_read_data_8bit(h, addr, size) == Read8Loop(icsp_cmd_loadpc(h, addr), 0, size)

\* the iterations a <= i < b of
\* for (i = 0; i < size - 1; i++) icsp_send_command(LOAD_DATA_INCPC, data[i]);
RECURSIVE PageLoop(_, _, _, _)
PageLoop(h, data, a, b) ==
    IF a >= b THEN h
    ELSE IF b = a + 1
      THEN icsp_send_command(h, ICSP_COMMAND_LOAD_DATA_INCPC, data[a + 1])
    ELSE LET h1 == PageLoop(h, data, a, (a + b) \div 2)
         IN  IF Evaluated(h1) THEN PageLoop(h1, data, (a + b) \div 2, b) ELSE h1

\* icsp_program_page sending the last word with the increment-PC opcode too
icsp_program_page_last_incpc(h, addr, data, size, erase) ==
    LET h1 == icsp_cmd_loadpc(h, addr)
        h2 == IF erase THEN icsp_cmd_erase_page(h1) ELSE h1
        h3 == PageLoop(h2, data, 0, size)
        h4 == icsp_send_command(h3, ICSP_COMMAND_BEGIN_PROG_INT, -1)
    IN  IF Evaluated(<<h1, h2, h3, h4>>) THEN sleep_ms(h4, 3) ELSE h4

icsp_program_page(h, addr, data, size, erase) ==
    LET h1 == icsp_cmd_loadpc(h, addr)
        h2 == IF erase THEN icsp_cmd_erase_page(h1) ELSE h1
        h3 == PageLoop(h2, data, 0, size - 1)
        h4 == icsp_send_command(h3, ICSP_COMMAND_LOAD_DATA, data[size])
        h5 == icsp_send_command(h4, ICSP_COMMAND_BEGIN_PROG_INT, -1)
    IN  IF Evaluated(<<h1, h2, h3, h4, h5>>) THEN sleep_ms(h5, 3) ELSE h5

\* the iterations a <= i < b of
\* for (i = 0; i < size; i++) { icsp_cmd_write_data(data[i], true); sleep_ms(11); }
RECURSIVE Page8Loop(_, _, _, _)
Page8Loop(h, data, a, b) ==
    IF a >= b THEN h
    ELSE IF b = a + 1
      THEN sleep_ms(icsp_cmd_write_data(h, data[a + 1], TRUE), 11)
    ELSE LET h1 == Page8Loop(h, data, a, (a + b) \div 2)
         IN  IF Evaluated(h1) THEN Page8Loop(h1, data, (a + b) \div 2, b) ELSE h1

icsp_program_page_8bit(h, addr, data, size, erase) ==
    LET h1 == icsp_cmd_loadpc(h, addr)
        h2 == IF erase THEN icsp_cmd_erase_page(h1) ELSE h1
    IN  Page8Loop(h2, data, 0, size)

\* the word write that leaves out a word equal to the erased value 0xFFFF
ConfigWordSkipErased(h, a, word) ==
    IF word = 65535 THEN h
    ELSE sleep_ms(icsp_send_command(icsp_send_command(icsp_cmd_loadpc(h, a),
                                                      ICSP_COMMAND_LOAD_DATA, word),
                                    ICSP_COMMAND_BEGIN_PROG_INT, -1), 11)

\* one word write of icsp_program_config: load_pc, load-data, begin-programming,
\* sleep_ms(11)
ConfigWord(h, a, word) ==
    LET h1 == icsp_cmd_loadpc(h, a)
        h2 == icsp_send_command(h1, ICSP_COMMAND_LOAD_DATA, word)
        h3 == icsp_send_command(h2, ICSP_COMMAND_BEGIN_PROG_INT, -1)
    IN  sleep_ms(h3, 11)

\* the iterations i = 2a, 2a + 2, ..., 2b - 2 of for (i = 0; i + 1 < byte_count; i += 2),
\* which runs byte_count / 2 times
RECURSIVE ConfigLoop(_, _, _, _, _)
ConfigLoop(h, addr, data, a, b) ==
    IF a >= b THEN h
    ELSE IF b = a + 1
      THEN ConfigWord(h, addr + 2 * a,
                      U16(BitOr(data[2 * a + 1], Shl(data[2 * a + 2], 8))))
    ELSE LET h1 == ConfigLoop(h, addr, data, a, (a + b) \div 2)
         IN  IF Evaluated(h1) THEN ConfigLoop(h1, addr, data, (a + b) \div 2, b) ELSE h1

icsp_program_config(h, addr, data, byte_count) ==
    LET h1 == ConfigLoop(h, addr, data, 0, byte_count \div 2)
    IN  IF BitAnd(byte_count, 1) # 0
          THEN ConfigWord(h1, addr + (byte_count - 1),
                          U16(BitOr(data[byte_count], 65280)))
          ELSE h1

(***************************************************************************)
(* target.c: the catalog; a name is the sequence of its character codes    *)
(***************************************************************************)
targets ==
    <<
       [id |-> 27680, mask |-> 65280, flash_size |-> 131072,
        name |-> <<80, 73, 67, 49, 56, 70, 50, 55, 75, 52, 50>>],  \* 0x6C20 0xFF00 "PIC18F27K42"
       [id |-> 27712, mask |-> 65280, flash_size |-> 131072,
        name |-> <<80, 73, 67, 49, 56, 70, 50, 55, 75, 52, 50>>],  \* 0x6C40 0xFF00 "PIC18F27K42"
       [id |-> 27648, mask |-> 65280, flash_size |-> 65536,
        name |-> <<80, 73, 67, 49, 56, 70, 50, 54, 75, 52, 50>>],  \* 0x6C00 0xFF00 "PIC18F26K42"
       [id |-> 27872, mask |-> 65280, flash_size |-> 32768,
        name |-> <<80, 73, 67, 49, 56, 70, 50, 53, 75, 52, 50>>],  \* 0x6CE0 0xFF00 "PIC18F25K42"
       [id |-> 27840, mask |-> 65280, flash_size |-> 16384,
        name |-> <<80, 73, 67, 49, 56, 70, 50, 52, 75, 52, 50>>],  \* 0x6CC0 0xFF00 "PIC18F24K42"
       [id |-> 27808, mask |-> 65280, flash_size |-> 131072,
        name |-> <<80, 73, 67, 49, 56, 70, 52, 55, 75, 52, 50>>],  \* 0x6CA0 0xFF00 "PIC18F47K42"
       [id |-> 27776, mask |-> 65280, flash_size |-> 65536,
        name |-> <<80, 73, 67, 49, 56, 70, 52, 54, 75, 52, 50>>],  \* 0x6C80 0xFF00 "PIC18F46K42"
       [id |-> 27744, mask |-> 65280, flash_size |-> 32768,
        name |-> <<80, 73, 67, 49, 56, 70, 52, 53, 75, 52, 50>>],  \* 0x6C60 0xFF00 "PIC18F45K42"
       [id |-> 29920, mask |-> 65504, flash_size |-> 32768,
        name |-> <<80, 73, 67, 49, 56, 70, 49, 53, 81, 52, 49>>],  \* 0x74E0 0xFFE0 "PIC18F15Q41"
       [id |-> 29952, mask |-> 65504, flash_size |-> 16384,
        name |-> <<80, 73, 67, 49, 56, 70, 48, 53, 81, 52, 49>>],  \* 0x7500 0xFFE0 "PIC18F05Q41"
       [id |-> 29984, mask |-> 65504, flash_size |-> 16384,
        name |-> <<80, 73, 67, 49, 56, 70, 49, 52, 81, 52, 49>>],  \* 0x7520 0xFFE0 "PIC18F14Q41"
       [id |-> 30016, mask |-> 65504, flash_size |-> 8192,
        name |-> <<80, 73, 67, 49, 56, 70, 48, 52, 81, 52, 49>>],  \* 0x7540 0xFFE0 "PIC18F04Q41"
       [id |-> 30048, mask |-> 65504, flash_size |-> 65536,
        name |-> <<80, 73, 67, 49, 56, 70, 49, 54, 81, 52, 49>>],  \* 0x7560 0xFFE0 "PIC18F16Q41"
       [id |-> 30080, mask |-> 65504, flash_size |-> 32768,
        name |-> <<80, 73, 67, 49, 56, 70, 48, 54, 81, 52, 49>>],  \* 0x7580 0xFFE0 "PIC18F06Q41"
       [id |-> 30112, mask |-> 65504, flash_size |-> 16384,
        name |-> <<80, 73, 67, 49, 54, 70, 49, 54, 81, 52, 48>>],  \* 0x75A0 0xFFE0 "PIC16F16Q40"
       [id |-> 30144, mask |-> 65504, flash_size |-> 32768,
        name |-> <<80, 73, 67, 49, 56, 70, 48, 54, 81, 52, 48>>],  \* 0x75C0 0xFFE0 "PIC18F06Q40"
       [id |-> 30176, mask |-> 65504, flash_size |-> 32768,
        name |-> <<80, 73, 67, 49, 56, 70, 49, 53, 81, 52, 48>>],  \* 0x75E0 0xFFE0 "PIC18F15Q40"
       [id |-> 30208, mask |-> 65504, flash_size |-> 16384,
        name |-> <<80, 73, 67, 49, 56, 70, 48, 53, 81, 52, 48>>],  \* 0x7600 0xFFE0 "PIC18F05Q40"
       [id |-> 30240, mask |-> 65504, flash_size |-> 16384,
        name |-> <<80, 73, 67, 49, 56, 70, 49, 52, 81, 52, 48>>],  \* 0x7620 0xFFE0 "PIC18F14Q40"
       [id |-> 30272, mask |-> 65504, flash_size |-> 8192,
        name |-> <<80, 73, 67, 49, 56, 70, 48, 52, 81, 52, 48>>]   \* 0x7640 0xFFE0 "PIC18F04Q40"
    >>

TARGET_COUNT == Len(targets)

NameUnknown == <<85, 110, 107, 110, 111, 119, 110>>  \* "Unknown"

TargetMatch(device_id, t) == BitAnd(device_id, t.mask) = BitAnd(t.id, t.mask)

\* the entries the loop of a lookup stops at: the first that matches, if any
FirstMatch(device_id) ==
    LET ks == { k \in 1..TARGET_COUNT : TargetMatch(device_id, targets[k]) }
    IN  IF ks = {} THEN 0 ELSE CHOOSE k \in ks : \A j \in ks : k <= j

target_identify(device_id) ==
    IF FirstMatch(device_id) = 0 THEN NameUnknown
    ELSE targets[FirstMatch(device_id)].name

target_flash_size(device_id) ==
    IF FirstMatch(device_id) = 0 THEN 0
    ELSE targets[FirstMatch(device_id)].flash_size

(***************************************************************************)
(* main.c: the command handlers. len is req->len, p is req->payload        *)
(* (p[k+1] is payload[k]).                                                 *)
(***************************************************************************)
\* the buffer a handler fills: h.buf lists the stores <<index, byte>> in order;
\* an index never stored holds an uninitialised byte, written -1
BufAt(stores, idx) ==
    LET ks == { k \in 1..Len(stores) : stores[k][1] = idx }
    IN  IF ks = {} THEN -1
        ELSE stores[CHOOSE k \in ks : \A j \in ks : j <= k][2]

BufBytes(stores, n) == [k \in 1..n |-> BufAt(stores, k - 1)]

IdAbsent(id) == id = 65535 \/ id = 0

\* handle_diag without the return that follows the error response
handle_diag_no_return(h) ==
    LET h1 == icsp_get_device_id(icsp_enter_lvp(h))
        h2 == icsp_get_revision_id(h1)
        h3 == icsp_exit_lvp(h2)
        name == target_identify(h1.val)
        resp == <<BitAnd(h1.val, 255), BitAnd(Shr(h1.val, 8), 255),
                  BitAnd(h2.val, 255), BitAnd(Shr(h2.val, 8), 255)>> \o name
        h4 == IF IdAbsent(h1.val)
                THEN Send(h3, proto_send_error(STATUS_ERR_TARGET))
                ELSE h3
    IN  Send(h4, proto_send_response(STATUS_OK, resp, U16(4 + Len(name))))

handle_diag(h) ==
    LET h1 == icsp_get_device_id(icsp_enter_lvp(h))
        dev_id == h1.val
        h2 == icsp_get_revision_id(h1)
        rev_id == h2.val
        h3 == icsp_exit_lvp(h2)
        name == target_identify(dev_id)
        name_len == Len(name)
        resp == <<BitAnd(dev_id, 255), BitAnd(Shr(dev_id, 8), 255),
                  BitAnd(rev_id, 255), BitAnd(Shr(rev_id, 8), 255)>> \o name
    IN  IF ~Evaluated(<<h1, h2, h3>>) THEN h3
        ELSE IF IdAbsent(dev_id)
          THEN Send(h3, proto_send_error(STATUS_ERR_TARGET))
          ELSE Send(h3, proto_send_response(STATUS_OK, resp, U16(4 + name_len)))

\* target_check leaving the session open when no target answers
target_check_no_exit(h) ==
    LET h1 == icsp_get_device_id(icsp_enter_lvp(h))
    IN  IF IdAbsent(h1.val)
          THEN [h1 EXCEPT !.val = 0]
          ELSE [h1 EXCEPT !.val = 1]

\* target_check: h.val = 1 when the target answered, 0 when not
target_check(h) ==
    LET h1 == icsp_get_device_id(icsp_enter_lvp(h))
    IN  IF IdAbsent(h1.val)
          THEN [icsp_exit_lvp(h1) EXCEPT !.val = 0]
          ELSE [h1 EXCEPT !.val = 1]

\* handle_erase ending the session before it erases
handle_erase_exit_first(h) ==
    LET h1 == target_check(h)
    IN  IF h1.val = 0
          THEN Send(h1, proto_send_error(STATUS_ERR_TARGET))
          ELSE Send(icsp_cmd_erase(icsp_exit_lvp(h1),
                      BitOr(BitOr(ICSP_ERASE_REGION_FLASH, ICSP_ERASE_REGION_EEPROM),
                            BitOr(ICSP_ERASE_REGION_CONFIG, ICSP_ERASE_REGION_USER_ID))),
                    proto_send_ok)

handle_erase(h) ==
    LET h1 == target_check(h)
    IN  IF h1.val = 0
          THEN Send(h1, proto_send_error(STATUS_ERR_TARGET))
          ELSE Send(icsp_exit_lvp(
                      icsp_cmd_erase(h1,
                        BitOr(BitOr(ICSP_ERASE_REGION_FLASH, ICSP_ERASE_REGION_EEPROM),
                              BitOr(ICSP_ERASE_REGION_CONFIG, ICSP_ERASE_REGION_USER_ID)))),
                    proto_send_ok)

\* words[i] = data[i * 2] | (data[i * 2 + 1] << 8), data = payload + 4
PageWords(p) ==
    [k \in 1..FLASH_ROW_WORDS |->
        U16(BitOr(p[4 + (k - 1) * 2 + 1], Shl(p[4 + (k - 1) * 2 + 2], 8)))]

\* handle_write_page ending the session after each page
handle_write_page_exits(h, len, p) ==
    IF len < 4 + FLASH_ROW_BYTES
      THEN Send(h, proto_send_error(STATUS_ERR_PAYLOAD))
      ELSE LET addr == proto_get_u32(p)
               h1 == icsp_program_page(icsp_enter_lvp(h), addr, PageWords(p),
                                       FLASH_ROW_WORDS, TRUE)
           IN  Send(icsp_exit_lvp(h1), proto_send_ok)

handle_write_page(h, len, p) ==
    IF len < 4 + FLASH_ROW_BYTES
      THEN Send(h, proto_send_error(STATUS_ERR_PAYLOAD))
      ELSE LET addr == proto_get_u32(p)
               h1 == icsp_program_page(icsp_enter_lvp(h), addr, PageWords(p),
                                       FLASH_ROW_WORDS, TRUE)
           IN  Send(h1, proto_send_ok)

\* handle_write_config entering programming mode before the second length check
handle_write_config_enter_first(h, len, p) ==
    IF len < 6
      THEN Send(h, proto_send_error(STATUS_ERR_PAYLOAD))
      ELSE LET addr == proto_get_u32(p)
               data_len == proto_get_u16(SubSeq(p, 5, 6))
               h1 == icsp_enter_lvp(h)
           IN  IF len < 6 + data_len
                 THEN Send(h1, proto_send_error(STATUS_ERR_PAYLOAD))
                 ELSE Send(icsp_program_config(h1, addr, SubSeq(p, 7, Len(p)), data_len),
                           proto_send_ok)

handle_write_config(h, len, p) ==
    IF len < 6
      THEN Send(h, proto_send_error(STATUS_ERR_PAYLOAD))
      ELSE LET addr == proto_get_u32(p)
               data_len == proto_get_u16(SubSeq(p, 5, 6))
           IN  IF len < 6 + data_len
                 THEN Send(h, proto_send_error(STATUS_ERR_PAYLOAD))
                 ELSE Send(icsp_program_config(icsp_enter_lvp(h), addr,
                                               SubSeq(p, 7, Len(p)), data_len),
                           proto_send_ok)

handle_write_eeprom(h, len, p) ==
    IF len < 6
      THEN Send(h, proto_send_error(STATUS_ERR_PAYLOAD))
      ELSE LET addr == proto_get_u32(p)
               data_len == proto_get_u16(SubSeq(p, 5, 6))
           IN  IF len < 6 + data_len
                 THEN Send(h, proto_send_error(STATUS_ERR_PAYLOAD))
                 ELSE Send(icsp_program_page_8bit(icsp_enter_lvp(h), addr,
                                                  SubSeq(p, 7, Len(p)), data_len, FALSE),
                           proto_send_ok)

\* the loop body of handle_read storing the high byte without the test
\* i * 2 + 1 < read_len
ReadWordsBodyNoGuard(h, k, read_len) ==
    LET h1 == icsp_cmd_read_data(h, TRUE)
        w == h1.val
        h2 == [h1 EXCEPT !.buf = Append(@, <<k * 2, BitAnd(w, 255)>>)]
    IN  [h2 EXCEPT !.buf = Append(@, <<k * 2 + 1, BitAnd(Shr(w, 8), 255)>>)]

\* uint16_t w = icsp_cmd_read_data(true); buf[k * 2] = w & 0xFF;
\* if (k * 2 + 1 < read_len) buf[k * 2 + 1] = (w >> 8) & 0xFF;
ReadWordsBody(h, k, read_len) ==
    LET h1 == icsp_cmd_read_data(h, TRUE)
        w == h1.val
        h2 == [h1 EXCEPT !.buf = Append(@, <<k * 2, BitAnd(w, 255)>>)]
    IN  IF k * 2 + 1 < read_len
          THEN [h2 EXCEPT !.buf = Append(@, <<k * 2 + 1, BitAnd(Shr(w, 8), 255)>>)]
          ELSE h2

\* the iterations a <= i < b of for (i = 0; i < num_words; i++) of handle_read
RECURSIVE ReadWordsLoop(_, _, _, _)
ReadWordsLoop(h, a, b, read_len) ==
    IF a >= b THEN h
    ELSE IF b = a + 1 THEN ReadWordsBody(h, a, read_len)
    ELSE LET h1 == ReadWordsLoop(h, a, (a + b) \div 2, read_len)
         IN  IF Evaluated(h1) THEN ReadWordsLoop(h1, (a + b) \div 2, b, read_len) ELSE h1

\* addr >= 0x310000 on a uint32_t
IsEepromAddr(addr) == addr < 0 \/ addr >= 3211264

handle_read(h, len, p) ==
    IF len < 6
      THEN Send(h, proto_send_error(STATUS_ERR_PAYLOAD))
      ELSE LET addr == proto_get_u32(p)
               read_len == proto_get_u16(SubSeq(p, 5, 6))
           IN  IF read_len > PROTO_MAX_PAYLOAD
                 THEN Send(h, proto_send_error(STATUS_ERR_PAYLOAD))
                 ELSE LET h1 == icsp_enter_lvp(h)
                          h2 == IF IsEepromAddr(addr)
                                  THEN icsp_read_data_8bit(h1, addr, read_len)
                                  ELSE ReadWordsLoop(icsp_cmd_loadpc(h1, addr), 0,
                                                     U16((read_len + 1) \div 2), read_len)
                      IN  IF Evaluated(<<h1, h2>>)
                            THEN Send(h2, proto_send_response(STATUS_OK,
                                        BufBytes(h2.buf, read_len), read_len))
                            ELSE h2

\* handle_reset_target without the icsp_exit_lvp() call
handle_reset_target_no_exit(h) == Send(sleep_ms(h, 10), proto_send_ok)

handle_reset_target(h) == Send(sleep_ms(icsp_exit_lvp(h), 10), proto_send_ok)

test_data == <<187, 204, 221, 238>>

\* the iterations a <= i < b of
\* for (i = 0; i < 4; i++) { write_data(test_data[i], false); sleep_ms(11); increment_pc(); }
RECURSIVE TestWriteLoop(_, _, _)
TestWriteLoop(h, a, b) ==
    IF a >= b THEN h
    ELSE IF b = a + 1
      THEN icsp_cmd_increment_pc(
             sleep_ms(icsp_cmd_write_data(h, test_data[a + 1], FALSE), 11))
    ELSE LET h1 == TestWriteLoop(h, a, (a + b) \div 2)
         IN  IF Evaluated(h1) THEN TestWriteLoop(h1, (a + b) \div 2, b) ELSE h1

\* the iterations a <= i < b of
\* for (i = 0; i < 4; i++) read_data[i] = icsp_cmd_read_data(true) & 0xFF;
RECURSIVE TestReadLoop(_, _, _)
TestReadLoop(h, a, b) ==
    IF a >= b THEN h
    ELSE IF b = a + 1 THEN Read8Body(h, a)
    ELSE LET h1 == TestReadLoop(h, a, (a + b) \div 2)
         IN  IF Evaluated(h1) THEN TestReadLoop(h1, (a + b) \div 2, b) ELSE h1

\* the compare loop looking at the first byte only
TestCompareFirstOnly(read_data) ==
    IF test_data[1] # read_data[1] THEN 0 ELSE 1

\* the compare loop: 1 when all 4 bytes agree
TestCompare(read_data) ==
    IF \E k \in 1..4 : test_data[k] # read_data[k] THEN 0 ELSE 1

handle_test_eeprom(h) ==
    LET h1 == icsp_get_device_id(icsp_enter_lvp(h))
    IN  IF IdAbsent(h1.val)
          THEN Send(icsp_exit_lvp(h1), proto_send_error(STATUS_ERR_TARGET))
          ELSE LET test_addr == 3211264
                   h2 == icsp_cmd_erase(h1, ICSP_ERASE_REGION_EEPROM)
                   h3 == icsp_enter_lvp(sleep_ms(icsp_exit_lvp(h2), 10))
                   h4 == TestWriteLoop(icsp_cmd_loadpc(h3, test_addr), 0, 4)
                   h5 == icsp_enter_lvp(sleep_ms(icsp_exit_lvp(h4), 10))
                   \* read_data[4] = {0}
                   h6 == [h5 EXCEPT !.buf = <<<<0, 0>>, <<1, 0>>, <<2, 0>>, <<3, 0>>>>]
                   h7 == icsp_exit_lvp(TestReadLoop(icsp_cmd_loadpc(h6, test_addr), 0, 4))
                   result == TestCompare(BufBytes(h7.buf, 4))
               IN  IF Evaluated(<<h2, h3, h4, h5, h6, h7>>)
                     THEN Send(h7, proto_send_response(STATUS_OK, <<result>>, 1))
                     ELSE h7

\* handle_version sending the string's terminating NUL as well
handle_version_with_nul(h) ==
    Send(h, proto_send_response(STATUS_OK, VERSION_STRING \o <<0>>,
                                U16(Len(VERSION_STRING) + 1)))

handle_version(h) ==
    Send(h, proto_send_response(STATUS_OK, VERSION_STRING, U16(Len(VERSION_STRING))))

(***************************************************************************)
(* The host and the transport.                                             *)
(* The host sends request frames one after the other. A frame in flight is *)
(* [bytes, pad]: its bytes, followed by pad filler bytes (the payload and  *)
(* CRC of an oversized frame, whose values the firmware never looks at).   *)
(* The host computes the CRC by the protocol's definition (RefCrc8).       *)
(* getchar() returns the next byte of the stream, or a negative value when *)
(* the link drops; the rest of the frame in flight is then lost and        *)
(* getchar() keeps failing until proto_read_request returns.               *)
(***************************************************************************)
\* CRC-8, polynomial x^8 + x^2 + x + 1 (0x07), initial value 0, MSB first:
\* the remainder of the message followed by 8 zero bits, by bit-serial division
RefFeedBit(reg, b) ==
    LET shifted == ((reg * 2) % 256) + b
    IN  IF reg >= 128 THEN BitXor(shifted, 7) ELSE shifted

\* the bits a..b of a byte, counted from the most significant (bit 1) down
RECURSIVE RefFeedByte(_, _, _, _)
RefFeedByte(reg, byte, a, b) ==
    IF a > b THEN reg
    ELSE IF a = b THEN RefFeedBit(reg, (byte \div (2 ^ (8 - a))) % 2)
    ELSE LET r1 == RefFeedByte(reg, byte, a, (a + b) \div 2)
         IN  IF Evaluated(r1) THEN RefFeedByte(r1, byte, ((a + b) \div 2) + 1, b) ELSE r1

\* the bytes a..b of the message, in order
RECURSIVE RefFeed(_, _, _, _)
RefFeed(reg, data, a, b) ==
    IF a > b THEN reg
    ELSE IF a = b THEN RefFeedByte(reg, data[a], 1, 8)
    ELSE LET r1 == RefFeed(reg, data, a, (a + b) \div 2)
         IN  IF Evaluated(r1) THEN RefFeed(r1, data, ((a + b) \div 2) + 1, b) ELSE r1

RefCrc8(data) ==
    LET r == RefFeed(0, data, 1, Len(data))
    IN  IF Evaluated(data) /\ Evaluated(r) THEN RefFeedByte(r, 0, 1, 8) ELSE 0

NoWire == [bytes |-> <<>>, pad |-> 0]

WireEmpty(w) == w.bytes = <<>> /\ w.pad = 0

WireLen(w) == Len(w.bytes) + w.pad

\* the filler bytes are zeros
WireHead(w) == IF w.bytes # <<>> THEN Head(w.bytes) ELSE 0

WireDrop(w, n) ==
    IF n <= Len(w.bytes)
      THEN [w EXCEPT !.bytes = SubSeq(@, n + 1, Len(@))]
      ELSE [bytes |-> <<>>, pad |-> w.pad - (n - Len(w.bytes))]

FrameHeader(cmd, len) == <<cmd, len % 256, len \div 256>>

\* a well-formed request
MkFrame(cmd, pl) ==
    LET body == FrameHeader(cmd, Len(pl)) \o pl
    IN  [bytes |-> body \o <<RefCrc8(body)>>, pad |-> 0]

\* the same request with a wrong CRC byte
BadCrc(f, delta) ==
    [f EXCEPT !.bytes[Len(f.bytes)] = (@ + delta) % 256]

\* a request that declares len > 256: header, then len payload bytes and a CRC byte
Oversized(cmd, len) == [bytes |-> FrameHeader(cmd, len), pad |-> len + 1]

MaxFill == 3

AddrFlash == <<0, 0, 0, 0>>
AddrConfig == <<0, 0, 48, 0>>
AddrEeprom == <<0, 0, 49, 0>>
AddrHigh == <<0, 0, 0, 128>>

PagePattern == [k \in 1..FLASH_ROW_BYTES |-> (k * 7 + 1) % 256]

PagePayloads ==
    { AddrFlash \o Repeat(170, FLASH_ROW_BYTES),
      <<128, 0, 0, 0>> \o PagePattern \o Repeat(9, MaxFill - 2),
      AddrFlash \o Repeat(170, FLASH_ROW_BYTES - 1) }

ConfigData == { <<>>, <<255>>, <<255, 255>>, <<18, 52, 86>>, <<255, 255, 255, 255>> }

BlockPayloads(addr) ==
    { addr \o <<Len(d), 0>> \o d : d \in ConfigData }
      \cup { addr \o <<4, 0>> \o <<1, 2>>,          \* declares 4 bytes, carries 2
             addr \o <<2, 0>> \o <<1, 2, 3>>,       \* carries more than declared
             addr \o <<0>>,                         \* shorter than the 6-byte header
             <<>> }

ReadPayloads ==
    { a \o <<n, 0>> : a \in {AddrFlash, AddrEeprom}, n \in 0..(MaxFill + 1) }
      \cup { AddrHigh \o <<2, 0>>,
             AddrConfig \o <<2, 0, 7>>,
             AddrFlash \o <<1, 1>>,                 \* read length 257
             AddrFlash \o <<0>>,
             <<>> }

PlainCmds == {CMD_DIAG, CMD_ERASE, CMD_RESET_TARGET, CMD_TEST_EEPROM, CMD_VERSION}

UnknownCmds == {0, 10, 255}

GoodFrames ==
    { MkFrame(c, <<>>) : c \in PlainCmds \cup UnknownCmds }
      \cup { MkFrame(c, Repeat(1, MaxFill)) : c \in PlainCmds \cup UnknownCmds }
      \cup { MkFrame(CMD_VERSION, Repeat(0, PROTO_MAX_PAYLOAD)) }
      \cup { MkFrame(CMD_WRITE_PAGE, pl) : pl \in PagePayloads }
      \cup { MkFrame(CMD_WRITE_CONFIG, pl) : pl \in BlockPayloads(AddrConfig) }
      \cup { MkFrame(CMD_WRITE_EEPROM, pl) : pl \in BlockPayloads(AddrEeprom) }
      \cup { MkFrame(CMD_READ, pl) : pl \in ReadPayloads }

BadCrcFrames ==
    { BadCrc(MkFrame(c, pl), d) :
        c \in {CMD_ERASE, CMD_WRITE_CONFIG, CMD_VERSION, 10},
        pl \in {<<>>, AddrConfig \o <<2, 0, 255, 255>>},
        d \in {1, 255} }
      \cup { BadCrc(MkFrame(CMD_WRITE_PAGE, AddrFlash \o Repeat(170, FLASH_ROW_BYTES)), 128) }

OversizedFrames ==
    { Oversized(c, len) :
        c \in {CMD_WRITE_PAGE, CMD_VERSION},
        len \in {PROTO_MAX_PAYLOAD + 1, 300, 65534, 65535} }

Frames == GoodFrames \cup BadCrcFrames \cup OversizedFrames

\* the stream the next getchar() reads from: the rest of the frame in flight, or
\* the next frame the host sends
Incoming(w) == IF WireEmpty(w) THEN Frames ELSE {w}

(***************************************************************************)
(* The target: its answers to the reads of one handler, as the 3 bytes it  *)
(* clocks out per read.                                                    *)
(***************************************************************************)
Targets ==
    { [first |-> <<>>, rest |-> <<0, 0, 0>>],                \* no target: reads 0x0000
      [first |-> <<>>, rest |-> <<255, 255, 255>>],          \* no target: reads 0xFFFF
      [first |-> <<EncodePayload(27680), EncodePayload(187), EncodePayload(204),
                   EncodePayload(221), EncodePayload(238)>>,
       rest |-> <<1, 75, 180>>],                             \* 0x6C20, pattern reads back
      [first |-> <<EncodePayload(27680), EncodePayload(187), EncodePayload(204),
                   EncodePayload(220), EncodePayload(238)>>,
       rest |-> <<0, 255, 255>>],                            \* 0x6C20, EEPROM byte 2 wrong
      [first |-> <<EncodePayload(4660), <<1, 2, 3>>>>,
       rest |-> <<255, 0, 1>>] }                             \* an ID the catalog lacks

(***************************************************************************)
(* main(): the dispatcher loop, one step per getchar() and one per handler *)
(***************************************************************************)
NoUnit == [fn |-> "none"]

NewRead(s) ==
    [outcome |-> "reading", frame |-> s, drained |-> 0, eaten |-> 0,
     lvp0 |-> lvp_active, mclr0 |-> mclr]

\* the state main() enters its loop in
Idle ==
    /\ pc = "read_cmd"
    /\ req = [cmd |-> 0, len |-> 0]
    /\ payload = <<>>
    /\ lo = 0
    /\ i = 0
    /\ wire = NoWire
    /\ link = TRUE
    /\ lvp_active = FALSE
    /\ mclr = 1
    /\ tx = <<>>
    /\ bus = <<>>
    /\ rd = [outcome |-> "none", frame |-> NoWire, drained |-> 0, eaten |-> 0,
             lvp0 |-> FALSE, mclr0 |-> 1]

Init == Idle /\ u = NoUnit

\* proto_read_request returns: main() goes round its loop
Return(outcome) ==
    /\ pc' = "read_cmd"
    /\ lo' = 0
    /\ i' = 0
    /\ rd' = [rd EXCEPT !.outcome = outcome]

\* getchar() fails: the link drops and the rest of the frame is lost
LinkDrop ==
    /\ link' = FALSE
    /\ wire' = NoWire

\* c = getchar(); if (c == PICO_ERROR_TIMEOUT || c < 0) return false;
ReadCmd ==
    /\ pc = "read_cmd"
    /\ tx' = <<>>
    /\ bus' = <<>>
    /\ payload' = <<>>
    /\ UNCHANGED <<lvp_active, mclr, u>>
    /\ \/ \E s \in Incoming(wire) :
            /\ req' = [req EXCEPT !.cmd = U8(WireHead(s))]
            /\ wire' = WireDrop(s, 1)
            /\ link' = TRUE
            /\ rd' = NewRead(s)
            /\ pc' = "read_lo"
            /\ UNCHANGED <<lo, i>>
       \/ /\ LinkDrop
          /\ rd' = [NewRead(NoWire) EXCEPT !.outcome = "error"]
          /\ UNCHANGED <<pc, req, lo, i>>

\* int lo = getchar();
ReadLo ==
    /\ pc = "read_lo"
    /\ pc' = "read_hi"
    /\ UNCHANGED <<req, payload, i, lvp_active, mclr, tx, bus, rd, u>>
    /\ \/ /\ ~WireEmpty(wire)
          /\ lo' = WireHead(wire)
          /\ wire' = WireDrop(wire, 1)
          /\ UNCHANGED link
       \/ /\ LinkDrop
          /\ lo' = -1

\* int hi = getchar(); if (lo < 0 || hi < 0) return false; req->len = ...;
\* then the test req->len > PROTO_MAX_PAYLOAD
ReadHi ==
    /\ pc = "read_hi"
    /\ UNCHANGED <<payload, lvp_active, mclr, tx, bus, u>>
    /\ \/ /\ link /\ ~WireEmpty(wire)
          /\ LET hi == WireHead(wire)
                 len == U16(BitOr(U16(lo), Shl(U16(hi), 8)))
             IN  /\ wire' = WireDrop(wire, 1)
                 /\ req' = [req EXCEPT !.len = len]
                 /\ pc' = IF len > PROTO_MAX_PAYLOAD THEN "drain" ELSE "read_payload"
                 /\ i' = 0
                 /\ rd' = IF len > PROTO_MAX_PAYLOAD
                            THEN [rd EXCEPT !.outcome = "oversize"] ELSE rd
                 /\ UNCHANGED <<lo, link>>
       \/ /\ link
          /\ LinkDrop
          /\ Return("error")
          /\ UNCHANGED req
       \/ /\ ~link
          /\ Return("error")
          /\ UNCHANGED <<req, wire, link>>

\* for (uint16_t i = 0; i < req->len + 1; i++) getchar();
\* One step runs the n consecutive iterations that read from the frame in flight
\* (or, once the link is down, that all fail): n is bounded by the bytes left in
\* the frame, by the iterations left until i < req->len + 1 fails, and by the
\* iterations left until i++ wraps the uint16_t to 0.
DrainRun(avail) == Min(avail, Min((req.len + 1) - i, 65536 - i))

MaxEaten == 2

DrainStep ==
    /\ pc = "drain"
    /\ i < req.len + 1
    /\ UNCHANGED <<pc, req, payload, lo, lvp_active, mclr, tx, bus, u>>
    /\ \/ /\ link
          /\ WireEmpty(wire) => rd.eaten < MaxEaten
          /\ \E s \in Incoming(wire) :
               LET n == DrainRun(WireLen(s))
               IN  /\ wire' = WireDrop(s, n)
                   /\ i' = U16(i + n)
                   /\ rd' = [rd EXCEPT !.drained = @ + n,
                                       !.eaten = IF WireEmpty(wire) THEN @ + 1 ELSE @]
          /\ UNCHANGED link
       \/ /\ link
          /\ LinkDrop
          /\ i' = U16(i + 1)
          /\ UNCHANGED rd
       \/ /\ ~link
          /\ i' = U16(i + DrainRun(65536))
          /\ UNCHANGED <<wire, link, rd>>

\* the loop condition fails: req->len = 0; return false;
DrainExit ==
    /\ pc = "drain"
    /\ ~(i < req.len + 1)
    /\ req' = [req EXCEPT !.len = 0]
    /\ Return("oversize")
    /\ UNCHANGED <<payload, wire, link, lvp_active, mclr, tx, bus, u>>

\* for (uint16_t i = 0; i < req->len; i++) { c = getchar(); if (c < 0) return false;
\*                                           req->payload[i] = (uint8_t)c; }
ReadPayload ==
    /\ pc = "read_payload"
    /\ i < req.len
    /\ UNCHANGED <<req, lvp_active, mclr, tx, bus, u>>
    /\ \/ /\ ~WireEmpty(wire)
          /\ payload' = [k \in 1..(i + 1) |->
                            IF k = i + 1 THEN U8(WireHead(wire)) ELSE payload[k]]
          /\ wire' = WireDrop(wire, 1)
          /\ i' = U16(i + 1)
          /\ UNCHANGED <<pc, lo, link, rd>>
       \/ /\ LinkDrop
          /\ Return("error")
          /\ UNCHANGED payload

\* the frame proto_read_request checks: cmd, len low, len high, payload[0..len-1]
CrcFrame(r, p) ==
    <<r.cmd, U8(BitAnd(r.len, 255)), U8(Shr(r.len, 8))>> \o SubSeq(p, 1, r.len)

\* the comparison on the low seven bits only
CrcMismatchLow7(received_crc, expected_crc) == received_crc % 128 # expected_crc % 128

\* if (received_crc != expected_crc)
CrcMismatch(received_crc, expected_crc) == received_crc # expected_crc

\* proto_read_request taking a failed getchar() for the CRC byte 0xFF
ReadCrcIgnoresError ==
    /\ pc = "read_payload"
    /\ ~(i < req.len)
    /\ UNCHANGED <<req, payload, lvp_active, mclr, bus, u>>
    /\ \E failed \in BOOLEAN :
         LET received_crc == IF failed THEN 255 ELSE U8(WireHead(wire))
             expected_crc == proto_crc8(CrcFrame(req, payload), 3 + req.len)
         IN  /\ failed \/ ~WireEmpty(wire)
             /\ IF CrcMismatch(received_crc, expected_crc)
                   THEN /\ tx' = Append(tx, proto_send_error(STATUS_ERR_CRC))
                        /\ Return("crc")
                   ELSE /\ pc' = "dispatch"
                        /\ rd' = [rd EXCEPT !.outcome = "ok"]
                        /\ UNCHANGED <<tx, lo, i>>
             /\ IF failed THEN LinkDrop
                          ELSE wire' = WireDrop(wire, 1) /\ UNCHANGED link

\* c = getchar(); if (c < 0) return false; then the CRC check
ReadCrc ==
    /\ pc = "read_payload"
    /\ ~(i < req.len)
    /\ UNCHANGED <<req, payload, lvp_active, mclr, bus, u>>
    /\ \/ /\ ~WireEmpty(wire)
          /\ LET received_crc == U8(WireHead(wire))
                 expected_crc == proto_crc8(CrcFrame(req, payload), 3 + req.len)
             IN  IF CrcMismatch(received_crc, expected_crc)
                   THEN /\ tx' = Append(tx, proto_send_error(STATUS_ERR_CRC))
                        /\ Return("crc")
                   ELSE /\ pc' = "dispatch"
                        /\ rd' = [rd EXCEPT !.outcome = "ok"]
                        /\ UNCHANGED <<tx, lo, i>>
          /\ wire' = WireDrop(wire, 1)
          /\ UNCHANGED link
       \/ /\ LinkDrop
          /\ Return("error")
          /\ UNCHANGED tx

\* the hardware as a handler finds it
Hw(t) ==
    [lvp |-> lvp_active, mclr |-> mclr, bus |-> bus, tx |-> tx, tgt |-> t,
     n |-> 0, data |-> <<0, 0, 0>>, val |-> 0, buf |-> <<>>]

\* a handler has run to completion: main() goes round its loop
Finish(h) ==
    /\ lvp_active' = h.lvp
    /\ mclr' = h.mclr
    /\ bus' = h.bus
    /\ tx' = h.tx
    /\ Return("done")
    /\ UNCHANGED <<req, payload, wire, link, u>>

\* the cases of switch (req.cmd)
HandleDiag ==
    /\ pc = "dispatch" /\ req.cmd = CMD_DIAG
    /\ \E t \in Targets : Finish(handle_diag(Hw(t)))

HandleErase ==
    /\ pc = "dispatch" /\ req.cmd = CMD_ERASE
    /\ \E t \in Targets : Finish(handle_erase(Hw(t)))

HandleWritePage ==
    /\ pc = "dispatch" /\ req.cmd = CMD_WRITE_PAGE
    /\ \E t \in Targets : Finish(handle_write_page(Hw(t), req.len, payload))

HandleWriteConfig ==
    /\ pc = "dispatch" /\ req.cmd = CMD_WRITE_CONFIG
    /\ \E t \in Targets : Finish(handle_write_config(Hw(t), req.len, payload))

HandleWriteEeprom ==
    /\ pc = "dispatch" /\ req.cmd = CMD_WRITE_EEPROM
    /\ \E t \in Targets : Finish(handle_write_eeprom(Hw(t), req.len, payload))

HandleRead ==
    /\ pc = "dispatch" /\ req.cmd = CMD_READ
    /\ \E t \in Targets : Finish(handle_read(Hw(t), req.len, payload))

HandleResetTarget ==
    /\ pc = "dispatch" /\ req.cmd = CMD_RESET_TARGET
    /\ \E t \in Targets : Finish(handle_reset_target(Hw(t)))

HandleTestEeprom ==
    /\ pc = "dispatch" /\ req.cmd = CMD_TEST_EEPROM
    /\ \E t \in Targets : Finish(handle_test_eeprom(Hw(t)))

HandleVersion ==
    /\ pc = "dispatch" /\ req.cmd = CMD_VERSION
    /\ \E t \in Targets : Finish(handle_version(Hw(t)))

\* the default case ending the session before it answers
HandleDefaultExitsLvp ==
    /\ pc = "dispatch"
    /\ req.cmd \notin {CMD_DIAG, CMD_ERASE, CMD_WRITE_PAGE, CMD_WRITE_CONFIG,
                       CMD_WRITE_EEPROM, CMD_READ, CMD_RESET_TARGET, CMD_TEST_EEPROM,
                       CMD_VERSION}
    /\ \E t \in Targets :
         Finish(Send(icsp_exit_lvp(Hw(t)), proto_send_error(STATUS_ERR_CMD)))

\* default: proto_send_error(STATUS_ERR_CMD)
HandleDefault ==
    /\ pc = "dispatch"
    /\ req.cmd \notin {CMD_DIAG, CMD_ERASE, CMD_WRITE_PAGE, CMD_WRITE_CONFIG,
                       CMD_WRITE_EEPROM, CMD_READ, CMD_RESET_TARGET, CMD_TEST_EEPROM,
                       CMD_VERSION}
    /\ \E t \in Targets : Finish(Send(Hw(t), proto_send_error(STATUS_ERR_CMD)))

Next ==
    \/ ReadCmd
    \/ ReadLo
    \/ ReadHi
    \/ DrainStep
    \/ DrainExit
    \/ ReadPayload
    \/ ReadCrc
    \/ HandleDiag
    \/ HandleErase
    \/ HandleWritePage
    \/ HandleWriteConfig
    \/ HandleWriteEeprom
    \/ HandleRead
    \/ HandleResetTarget
    \/ HandleTestEeprom
    \/ HandleVersion
    \/ HandleDefault

Spec == Init /\ [][Next]_vars

\* main() is the only flow of control and every handler runs to completion
\* (its loops are bounded and its waits are finite), so the switch is always
\* left: fairness is on the step that takes control back to the top of the loop
SwitchReturns == pc = "dispatch" /\ pc' = "read_cmd"

FairSpec == Spec /\ WF_pc(SwitchReturns)

(***************************************************************************)
(* What the host can tell from a response frame, and what it sent          *)
(***************************************************************************)
\* a response frame, decoded by the frame layout of protocol.h
ParseFrame(bytes) ==
    LET len == bytes[2] + 256 * bytes[3]
    IN  [status |-> bytes[1], len |-> len, payload |-> SubSeq(bytes, 4, 3 + len),
         crc_ok |-> Len(bytes) = 4 + len
                      /\ bytes[4 + len] = RefCrc8(SubSeq(bytes, 1, 3 + len))]

\* exactly one response, with this status and no payload
OnlyResponse(status) ==
    /\ Len(tx) = 1
    /\ Len(tx[1]) = 4
    /\ ParseFrame(tx[1]) = [status |-> status, len |-> 0, payload |-> <<>>, crc_ok |-> TRUE]

\* the frame the host sent for the current request: its declared length, and
\* whether its CRC byte is the CRC of the bytes before it
SentLen(f) == f.bytes[2] + 256 * f.bytes[3]

SentCrcGood(f) ==
    f.bytes[Len(f.bytes)] = RefCrc8(SubSeq(f.bytes, 1, Len(f.bytes) - 1))

\* no byte was clocked on the ICSP bus, the reset line was not driven, and the
\* session is as it was when the request began
NoHardware ==
    /\ bus = <<>>
    /\ mclr = rd.mclr0
    /\ lvp_active = rd.lvp0

\* the current iteration of main()'s loop is over
IterationOver == pc = "read_cmd" /\ rd.outcome # "none"

\* the request was read completely (cmd, len <= 256, payload, CRC byte)
ReadCompletely == rd.outcome \in {"ok", "crc", "done"}

(***************************************************************************)
(* C1. One response frame per completely read request (CRC mismatches and  *)
(* unknown commands included), none for an oversized request or one cut    *)
(* short by a read error; no response is written while a request is being  *)
(* read, the next read starts only after the response is out, and every    *)
(* completely read request gets its response.                              *)
(***************************************************************************)
C1_Counts ==
    /\ pc \in {"read_lo", "read_hi", "read_payload", "drain", "dispatch"} => tx = <<>>
    /\ IterationOver =>
         /\ ReadCompletely => rd.outcome # "ok" /\ Len(tx) = 1
         /\ rd.outcome \in {"oversize", "error"} => tx = <<>>
         /\ rd.outcome \in {"crc", "done", "oversize", "error"}

\* a read begins only when the response of the request before it is out
C1_NoOverlap ==
    [][pc' = "read_lo" => pc = "read_cmd" /\ (ReadCompletely => Len(tx) = 1)]_vars

C1_OneResponsePerRequest ==
    /\ []C1_Counts
    /\ C1_NoOverlap
    /\ (pc = "dispatch") ~> (IterationOver /\ rd.outcome = "done" /\ Len(tx) = 1)

\* a request answered in a session an earlier request left active
C1_Witness ==
    /\ IterationOver /\ rd.outcome = "done" /\ Len(tx) = 1
    /\ rd.lvp0 /\ req.cmd = CMD_READ

(***************************************************************************)
(* C2. A request with len <= 256 whose CRC byte is wrong gets exactly one  *)
(* response, STATUS_ERR_CRC with length 0; it is never dispatched and      *)
(* touches no hardware, whatever its command byte.                         *)
(***************************************************************************)
C2_CrcMismatch ==
    /\ pc = "dispatch" => SentCrcGood(rd.frame)
    /\ (IterationOver /\ ReadCompletely) =>
         /\ rd.outcome = "crc" <=> ~SentCrcGood(rd.frame)
         /\ rd.outcome = "crc" => OnlyResponse(STATUS_ERR_CRC) /\ NoHardware

\* a WRITE_PAGE request with a wrong CRC, arriving in an active session
C2_Witness ==
    /\ IterationOver /\ rd.outcome = "crc"
    /\ req.cmd = CMD_WRITE_PAGE /\ req.len = 4 + FLASH_ROW_BYTES
    /\ lvp_active

(***************************************************************************)
(* C3. For a declared length 256 < len <= 65535 the read consumes exactly  *)
(* len + 1 bytes after the header and returns: it never takes a byte past  *)
(* those, stores nothing in the payload buffer, sends nothing, and leaves  *)
(* the stream at the first byte of the frame that follows.                 *)
(***************************************************************************)
C3_DrainExact ==
    (rd.outcome = "oversize" /\ link) =>
        /\ rd.drained <= SentLen(rd.frame) + 1
        /\ payload = <<>>
        /\ tx = <<>>
        /\ pc = "read_cmd" => rd.drained = SentLen(rd.frame) + 1 /\ WireEmpty(wire)

\* the same, for every declared length but 65535
C3_DrainExactBelow65535 ==
    (rd.outcome = "oversize" /\ SentLen(rd.frame) # 65535) => C3_DrainExact

(***************************************************************************)
(* C8. A valid request whose command byte is not 0x01..0x09 gets one       *)
(* response, STATUS_ERR_CMD with length 0, and touches no hardware, in any *)
(* session state.                                                          *)
(***************************************************************************)
C8_UnknownCommand ==
    (IterationOver /\ rd.outcome = "done" /\ req.cmd \notin 1..9) =>
        OnlyResponse(STATUS_ERR_CMD) /\ NoHardware

\* an unknown command arriving in an active session
C8_Witness ==
    /\ IterationOver /\ rd.outcome = "done" /\ req.cmd = 255
    /\ lvp_active /\ rd.lvp0

(***************************************************************************)
(* C9. A request that fails its payload precondition gets one response,    *)
(* STATUS_ERR_PAYLOAD with length 0, and touches no hardware:              *)
(* WRITE_PAGE with len < 132; WRITE_CONFIG / WRITE_EEPROM with len < 6 or  *)
(* len < 6 + declared data length; READ with len < 6 or read length > 256. *)
(***************************************************************************)
\* the 16-bit little-endian field at payload[4..5]
Declared == payload[5] + 256 * payload[6]

C9_Fails ==
    \/ req.cmd = CMD_WRITE_PAGE /\ req.len < 132
    \/ req.cmd \in {CMD_WRITE_CONFIG, CMD_WRITE_EEPROM}
         /\ (req.len < 6 \/ req.len < 6 + Declared)
    \/ req.cmd = CMD_READ /\ (req.len < 6 \/ Declared > 256)

C9_PayloadPrecondition ==
    (IterationOver /\ rd.outcome = "done" /\ C9_Fails) =>
        OnlyResponse(STATUS_ERR_PAYLOAD) /\ NoHardware

\* a WRITE_CONFIG that declares more data than it carries, in an inactive session
C9_Witness ==
    /\ IterationOver /\ rd.outcome = "done"
    /\ req.cmd = CMD_WRITE_CONFIG /\ req.len >= 6 /\ req.len < 6 + Declared
    /\ ~rd.lvp0

(***************************************************************************)
(* The functions taken one at a time: a call with its arguments in u, the  *)
(* main loop idle. The bus functions are called in an active session, as   *)
(* every caller does.                                                      *)
(***************************************************************************)
mainvars == <<pc, req, payload, lo, i, wire, link, lvp_active, mclr, tx, bus, rd>>

UnitHw ==
    [lvp |-> TRUE, mclr |-> 0, bus |-> <<>>, tx |-> <<>>,
     tgt |-> [first |-> <<>>, rest |-> <<0, 0, 0>>],
     n |-> 0, data |-> <<0, 0, 0>>, val |-> 0, buf |-> <<>>]

\* all byte sequences of length <= n over the bytes of B
SeqsUpTo(B, n) == UNION { [1..k -> B] : k \in 0..n }

\* the 24 bits that carry a payload x: x in bits 1..22, a zero stop bit
Enc24(x) == <<(x \div 32768) % 256, (x \div 128) % 256, (2 * x) % 256>>

\* a bus event is the expected one: same kind and bytes, a wait at least as long
EvMatches(e, x) ==
    /\ e.k = x.k
    /\ e.bytes = x.bytes
    /\ e.k = "sleep" => e.arg >= x.arg
    /\ e.k = "gpio" => e.op = x.op

BusMatches(b, x) ==
    /\ Len(b) = Len(x)
    /\ \A j \in 1..Len(x) : EvMatches(b[j], x[j])

XWrite(bytes) == [k |-> "write", bytes |-> bytes, arg |-> 0, op |-> 0]

XSleep(us) == [k |-> "sleep", bytes |-> <<>>, arg |-> us, op |-> 0]

(***************************************************************************)
(* proto_crc8                                                              *)
(***************************************************************************)
MaxCrcLen == 3

CrcBytes == {0, 1, 7, 9, 85, 128, 129, 255}

\* short inputs, and the bodies of the request frames the host sends
CrcInputs ==
    SeqsUpTo(CrcBytes, MaxCrcLen)
      \cup { SubSeq(f.bytes, 1, Len(f.bytes) - 1) : f \in GoodFrames }

InitCrc ==
    /\ Idle
    /\ \E d \in CrcInputs : u = [fn |-> "proto_crc8", data |-> d, done |-> FALSE, out |-> 0]

CallCrc8 ==
    /\ u.fn = "proto_crc8" /\ ~u.done
    /\ u' = [u EXCEPT !.done = TRUE, !.out = proto_crc8(u.data, Len(u.data))]
    /\ UNCHANGED mainvars

NextCrc == CallCrc8

SpecCrc == InitCrc /\ [][NextCrc]_vars

(***************************************************************************)
(* C5. proto_crc8 is the CRC-8 of the protocol (polynomial 0x07, initial   *)
(* value 0, MSB first, no reflection, no final XOR) of its input: a byte,  *)
(* 0 for the empty input, and 0x3A for the bytes 09 00 00.                 *)
(***************************************************************************)
C5_Crc8Reference ==
    (u.fn = "proto_crc8" /\ u.done) =>
        /\ u.out = RefCrc8(u.data)
        /\ u.out \in 0..255
        /\ u.data = <<>> => u.out = 0
        /\ u.data = <<9, 0, 0>> => u.out = 58

\* the CRC of a three-byte input that is not zero
C5_Witness ==
    u.fn = "proto_crc8" /\ u.done /\ Len(u.data) = 3 /\ u.out # 0 /\ u.data[1] = 255

(***************************************************************************)
(* proto_send_response                                                     *)
(***************************************************************************)
SendStatuses ==
    {STATUS_OK, STATUS_ERR_CMD, STATUS_ERR_CRC, STATUS_ERR_TARGET, STATUS_ERR_PAYLOAD, 255}

SendPayloads ==
    SeqsUpTo({0, 170, 255}, MaxFill)
      \cup { Repeat(170, PROTO_MAX_PAYLOAD - 1), Repeat(85, PROTO_MAX_PAYLOAD),
             [k \in 1..PROTO_MAX_PAYLOAD |-> k - 1] }

InitSend ==
    /\ Idle
    /\ \E st \in SendStatuses, d \in SendPayloads :
         u = [fn |-> "proto_send_response", status |-> st, data |-> d, len |-> Len(d),
              done |-> FALSE, out |-> <<>>]

CallSendResponse ==
    /\ u.fn = "proto_send_response" /\ ~u.done
    /\ u' = [u EXCEPT !.done = TRUE, !.out = proto_send_response(u.status, u.data, u.len)]
    /\ UNCHANGED mainvars

NextSend == CallSendResponse

SpecSend == InitSend /\ [][NextSend]_vars

(***************************************************************************)
(* C4. For len <= 256, proto_send_response(status, data, len) writes       *)
(* exactly 4 + len bytes: status, len low, len high, the len payload bytes *)
(* in order, and the CRC-8 of all the bytes before it; read as a frame,    *)
(* the bytes give back status, len and payload.                            *)
(***************************************************************************)
C4_SendResponse ==
    (u.fn = "proto_send_response" /\ u.done) =>
        /\ Len(u.out) = 4 + u.len
        /\ u.out[1] = u.status
        /\ u.out[2] = u.len % 256
        /\ u.out[3] = u.len \div 256
        /\ \A k \in 1..u.len : u.out[3 + k] = u.data[k]
        /\ u.out[4 + u.len] = RefCrc8(SubSeq(u.out, 1, 3 + u.len))
        /\ ParseFrame(u.out) = [status |-> u.status, len |-> u.len,
                                payload |-> u.data, crc_ok |-> TRUE]

\* a full 256-byte response
C4_Witness ==
    /\ u.fn = "proto_send_response" /\ u.done
    /\ u.len = PROTO_MAX_PAYLOAD /\ Len(u.out) = 260 /\ u.out[3] = 1

(***************************************************************************)
(* icsp_cmd_erase                                                          *)
(***************************************************************************)
\* the masks 0..MaxRegions: every subset of the four regions, with and without
\* bits that name no region
MaxRegions == 63

InitErase ==
    /\ Idle
    /\ \E m \in 0..MaxRegions :
         u = [fn |-> "icsp_cmd_erase", regions |-> m, done |-> FALSE, out |-> <<>>]

CallErase ==
    /\ u.fn = "icsp_cmd_erase" /\ ~u.done
    /\ u' = [u EXCEPT !.done = TRUE, !.out = icsp_cmd_erase(UnitHw, u.regions).bus]
    /\ UNCHANGED mainvars

NextErase == CallErase

SpecErase == InitErase /\ [][NextErase]_vars

\* region bit is set in mask m
Selected(m, bit) == (m \div bit) % 2 = 1

\* what the erase of one region puts on the bus
EraseBlock(m, bit, base) ==
    IF Selected(m, bit)
      THEN <<XWrite(<<128>> \o Enc24(base)), XWrite(<<24>>), XSleep(26000)>>
      ELSE <<>>

\* the positions of the bulk-erase opcodes whose load_pc carries this base
ErasePositions(b, base) ==
    { j \in 2..Len(b) : b[j].k = "write" /\ b[j].bytes = <<24>>
                          /\ b[j - 1].bytes = <<128>> \o Enc24(base) }

\* the region is erased once when selected, and not at all when not
ErasedOnce(b, m, bit, base) ==
    Cardinality(ErasePositions(b, base)) = (IF Selected(m, bit) THEN 1 ELSE 0)

(***************************************************************************)
(* C6. icsp_cmd_erase erases exactly the selected regions, each once, in   *)
(* the order CONFIG, FLASH, EEPROM, USER_ID: per region load_pc with its   *)
(* base (CONFIG 0x300000, FLASH 0x000000, EEPROM 0x310000), the bulk-erase *)
(* opcode alone, then a wait of at least 26 ms; the CONFIG erase comes     *)
(* strictly before the FLASH erase when both are selected.                 *)
(***************************************************************************)
C6_EraseOrder ==
    (u.fn = "icsp_cmd_erase" /\ u.done) =>
        /\ BusMatches(u.out,
                      EraseBlock(u.regions, 8, 3145728) \o EraseBlock(u.regions, 2, 0)
                        \o EraseBlock(u.regions, 1, 3211264)
                        \o EraseBlock(u.regions, 4, 2097152))
        /\ (Selected(u.regions, 8) /\ Selected(u.regions, 2)) =>
             \A c \in ErasePositions(u.out, 3145728), f \in ErasePositions(u.out, 0) : c < f
        /\ ErasedOnce(u.out, u.regions, 8, 3145728)
        /\ ErasedOnce(u.out, u.regions, 2, 0)
        /\ ErasedOnce(u.out, u.regions, 1, 3211264)
        /\ ErasedOnce(u.out, u.regions, 4, 2097152)

\* erase(FLASH | CONFIG | EEPROM): three regions erased, CONFIG first
C6_Witness ==
    /\ u.fn = "icsp_cmd_erase" /\ u.done /\ u.regions = 11
    /\ Len(u.out) = 9
    /\ u.out[1].bytes = <<128, 96, 0, 0>>

(***************************************************************************)
(* The 24-bit packing: icsp_send_command and icsp_cmd_read_data            *)
(***************************************************************************)
Words == 0..(2 ^ 16 - 1)

InitCodec ==
    /\ Idle
    /\ \E v \in Words :
         u = [fn |-> "codec", v |-> v, step |-> "encode", bytes |-> <<>>, out |-> 0]

\* the payload bytes icsp_send_command(ICSP_COMMAND_LOAD_DATA, v) clocks out
CallSendCommand ==
    /\ u.fn = "codec" /\ u.step = "encode"
    /\ LET e == icsp_send_command(UnitHw, ICSP_COMMAND_LOAD_DATA, u.v).bus[1]
       IN  u' = [u EXCEPT !.step = "decode", !.bytes = Tail(e.bytes)]
    /\ UNCHANGED mainvars

\* icsp_cmd_read_data with the target clocking those three bytes back
CallReadData ==
    /\ u.fn = "codec" /\ u.step = "decode"
    /\ \E increment_pc \in BOOLEAN :
         LET h == [UnitHw EXCEPT !.tgt = [first |-> <<u.bytes>>, rest |-> <<0, 0, 0>>]]
         IN  u' = [u EXCEPT !.step = "done", !.out = icsp_cmd_read_data(h, increment_pc).val]
    /\ UNCHANGED mainvars

NextCodec == CallSendCommand \/ CallReadData

SpecCodec == InitCodec /\ [][NextCodec]_vars

(***************************************************************************)
(* C7. For every 16-bit v, the three payload bytes icsp_send_command emits *)
(* for v are (v>>15)&0xFF, (v>>7)&0xFF, (v<<1)&0xFF, and the read-data     *)
(* reconstruction of those bytes is v.                                     *)
(***************************************************************************)
C7_EncodeDecodeInverse ==
    /\ (u.fn = "codec" /\ u.step # "encode") => u.bytes = Enc24(u.v)
    /\ (u.fn = "codec" /\ u.step = "done") => u.out = u.v

\* a value with its top and bottom bits set, decoded
C7_Witness ==
    u.fn = "codec" /\ u.step = "done" /\ u.v = 33025 /\ u.bytes = <<1, 2, 2>>

(***************************************************************************)
(* icsp_program_config                                                     *)
(***************************************************************************)
MaxCfgBytes == 4

CfgBytes == {0, 18, 255}

\* the configuration block, the start of flash, and an address above 0x7FFFFFFF,
\* which is negative as the int the function takes
CfgAddrs == {3145728, 3145738, 0, (-1073741824) * 2}

InitConfig ==
    /\ Idle
    /\ \E a \in CfgAddrs, d \in SeqsUpTo(CfgBytes, MaxCfgBytes) :
         u = [fn |-> "icsp_program_config", addr |-> a, data |-> d, done |-> FALSE,
              out |-> <<>>]

CallProgramConfig ==
    /\ u.fn = "icsp_program_config" /\ ~u.done
    /\ u' = [u EXCEPT !.done = TRUE,
                      !.out = icsp_program_config(UnitHw, u.addr, u.data, Len(u.data)).bus]
    /\ UNCHANGED mainvars

NextConfig == CallProgramConfig

SpecConfig == InitConfig /\ [][NextConfig]_vars

\* the word the k-th write carries (k from 0), n the byte count
ConfigWordAt(data, n, k) ==
    IF 2 * k + 2 <= n THEN data[2 * k + 1] + 256 * data[2 * k + 2]
    ELSE data[n] + 65280

\* the bus event is the call icsp_send_command(op, arg)
IsCommand(e, op, arg) ==
    /\ e.k = "write" /\ e.op = op /\ e.arg = arg
    /\ e.bytes = (IF arg >= 0 THEN <<op>> \o Enc24(arg) ELSE <<op>>)

(***************************************************************************)
(* C10. icsp_program_config issues exactly ceil(n/2) word writes and skips *)
(* none, 0xFFFF included: the k-th is load_pc(addr + 2k), load-data with   *)
(* data[2k] | data[2k+1]<<8, begin-programming, a wait of at least 11 ms;  *)
(* for odd n the last word is data[n-1] | 0xFF00; for n = 0 nothing.       *)
(***************************************************************************)
C10_ConfigWrites ==
    (u.fn = "icsp_program_config" /\ u.done) =>
        LET n == Len(u.data)
            words == (n + 1) \div 2
        IN  /\ Len(u.out) = 4 * words
            /\ \A k \in 0..(words - 1) :
                 /\ IsCommand(u.out[4 * k + 1], 128, u.addr + 2 * k)
                 /\ IsCommand(u.out[4 * k + 2], 0, ConfigWordAt(u.data, n, k))
                 /\ IsCommand(u.out[4 * k + 3], 224, -1)
                 /\ u.out[4 * k + 4].k = "sleep" /\ u.out[4 * k + 4].arg >= 11000

\* three bytes FF FF 12: the word 0xFFFF is written, then the padded 0xFF12
C10_Witness ==
    /\ u.fn = "icsp_program_config" /\ u.done /\ u.data = <<255, 255, 18>>
    /\ Len(u.out) = 8
    /\ u.out[2].arg = 65535 /\ u.out[6].arg = 65298

(***************************************************************************)
(* The bus events of a request, as the host's request determines them      *)
(***************************************************************************)
\* the request just handled: dispatched, and its handler has returned
Handled(cmd) == IterationOver /\ rd.outcome = "done" /\ req.cmd = cmd

\* the unlock sequence: reset line low, at least 50 ms, "MCHP", at least 5 ms
KeyMCHP == <<77, 67, 72, 80>>

IsUnlock(b, at) ==
    /\ Len(b) >= at + 3
    /\ b[at].k = "gpio" /\ b[at].op = 0
    /\ b[at + 1].k = "sleep" /\ b[at + 1].arg >= 50000
    /\ b[at + 2].k = "write" /\ b[at + 2].bytes = KeyMCHP
    /\ b[at + 3].k = "sleep" /\ b[at + 3].arg >= 5000

\* the events that drive the reset line low or clock the key out
Unlocks(b) ==
    { j \in 1..Len(b) : (b[j].k = "gpio" /\ b[j].op = 0)
                          \/ (b[j].k = "write" /\ b[j].bytes = KeyMCHP) }

\* the events of a handler that starts with icsp_enter_lvp(), after the unlock
\* that call performs in an inactive session
AfterEnter(b, was_active) == IF was_active THEN b ELSE SubSeq(b, 5, Len(b))

IsSleep(e, us) == e.k = "sleep" /\ e.arg >= us

\* the 32-bit little-endian field at payload[0..3], as the int it becomes
AddrField == Int32(payload[1], payload[2], payload[3], payload[4])

(***************************************************************************)
(* C11. A valid WRITE_PAGE with len >= 132 issues, in this order:          *)
(* load_pc(addr) for the little-endian address field, one page erase and a *)
(* wait of at least 11 ms, 63 increment-PC load-data commands with the     *)
(* words 0..62, one plain load-data with word 63, one begin-programming, a *)
(* wait of at least 3 ms; word i is payload[4+2i] | payload[5+2i] << 8;    *)
(* then one response, status OK, length 0.                                 *)
(***************************************************************************)
PageWordAt(k) == payload[5 + 2 * k] + 256 * payload[6 + 2 * k]

C11_WritePage ==
    (Handled(CMD_WRITE_PAGE) /\ req.len >= 132) =>
        LET b == AfterEnter(bus, rd.lvp0)
        IN  /\ ~rd.lvp0 => IsUnlock(bus, 1)
            /\ Len(b) = 69
            /\ IsCommand(b[1], ICSP_COMMAND_LOAD_PC, AddrField)
            /\ IsCommand(b[2], ICSP_COMMAND_PAGE_ERASE, -1)
            /\ IsSleep(b[3], 11000)
            /\ \A k \in 0..62 :
                 IsCommand(b[4 + k], ICSP_COMMAND_LOAD_DATA_INCPC, PageWordAt(k))
            /\ IsCommand(b[67], ICSP_COMMAND_LOAD_DATA, PageWordAt(63))
            /\ IsCommand(b[68], ICSP_COMMAND_BEGIN_PROG_INT, -1)
            /\ IsSleep(b[69], 3000)
            /\ OnlyResponse(STATUS_OK)

\* a page of 133 payload bytes written at 0x80 in an inactive session
C11_Witness ==
    /\ Handled(CMD_WRITE_PAGE) /\ req.len = 133 /\ ~rd.lvp0
    /\ Len(bus) = 73
    /\ bus[5].arg = 128
    /\ bus[8].arg = 8 + 256 * 15
    /\ bus[71].op = ICSP_COMMAND_LOAD_DATA

(***************************************************************************)
(* C12. A valid VERSION request, in any session state and with any payload *)
(* of up to 256 bytes, gets one response: status OK, length 11, payload    *)
(* "picokit 1.0"; it touches no hardware (no bus byte, no reset-line       *)
(* change, lvp_active as it was).                                          *)
(***************************************************************************)
C12_Version ==
    Handled(CMD_VERSION) =>
        /\ Len(tx) = 1
        /\ Len(tx[1]) = 15
        /\ ParseFrame(tx[1]) =
             [status |-> 0, len |-> 11,
              payload |-> <<112, 105, 99, 111, 107, 105, 116, 32, 49, 46, 48>>,
              crc_ok |-> TRUE]
        /\ NoHardware

\* a VERSION request carrying 256 payload bytes, in an active session
C12_Witness ==
    /\ Handled(CMD_VERSION) /\ req.len = 256
    /\ rd.lvp0 /\ lvp_active /\ Len(tx) = 1

(***************************************************************************)
(* What the target answered                                                *)
(***************************************************************************)
\* the 16-bit word carried by the 3 bytes the target clocks out
WordOf(d) == ((d[1] * 32768) + (d[2] * 128) + (d[3] \div 2)) % 65536

\* the reads of the request: where they are on the bus, and the k-th word read
ReadAt == { j \in 1..Len(bus) : bus[j].k = "read" }

NthRead(k) ==
    WordOf(bus[CHOOSE j \in ReadAt : Cardinality({ m \in ReadAt : m <= j }) = k].bytes)

\* the opcodes written during the request (the unlock key is not a command)
Opcodes == { bus[j].op : j \in { n \in 1..Len(bus) : bus[n].k = "write"
                                                      /\ bus[n].bytes # KeyMCHP } }

\* the statuses of the responses written during the request
Statuses == { tx[j][1] : j \in 1..Len(tx) }

ProbingCmds == {CMD_DIAG, CMD_ERASE, CMD_TEST_EEPROM}

\* a command that probes the identity was handled and the ID read was 0 or 0xFFFF
ProbedAbsent ==
    /\ IterationOver /\ rd.outcome = "done" /\ req.cmd \in ProbingCmds
    /\ ReadAt # {}
    /\ NthRead(1) \in {0, 65535}

(***************************************************************************)
(* C13. When the device ID reads 0x0000 or 0xFFFF, DIAG, ERASE and         *)
(* TEST_EEPROM answer STATUS_ERR_TARGET with length 0, issue no bulk       *)
(* erase, page erase, load-data or begin-programming opcode, and leave the *)
(* session inactive; no other command is ever answered STATUS_ERR_TARGET.  *)
(***************************************************************************)
C13_TargetAbsent ==
    /\ ProbedAbsent =>
         /\ OnlyResponse(STATUS_ERR_TARGET)
         /\ Opcodes \cap {ICSP_COMMAND_BULK_ERASE, ICSP_COMMAND_PAGE_ERASE,
                          ICSP_COMMAND_LOAD_DATA, ICSP_COMMAND_LOAD_DATA_INCPC,
                          ICSP_COMMAND_BEGIN_PROG_INT} = {}
         /\ ~lvp_active
    /\ STATUS_ERR_TARGET \in Statuses =>
         /\ rd.outcome = "done" /\ req.cmd \in ProbingCmds
         /\ (pc = "read_cmd" => ProbedAbsent)

\* TEST_EEPROM finding no target (ID 0xFFFF) in a session that was active
C13_Witness ==
    /\ ProbedAbsent /\ req.cmd = CMD_TEST_EEPROM
    /\ rd.lvp0 /\ ~lvp_active
    /\ NthRead(1) = 65535
    /\ STATUS_ERR_TARGET \in Statuses

(***************************************************************************)
(* The session flag along the events of a request: the value of lvp_active *)
(* when the j-th event happens, and after the last event                   *)
(***************************************************************************)
FlagAt(j) == IF j <= Len(bus) THEN bus[j].lvp ELSE lvp_active

IsGpio(j, level) == bus[j].k = "gpio" /\ bus[j].op = level

IsKey(j) == bus[j].k = "write" /\ bus[j].bytes = KeyMCHP

(***************************************************************************)
(* C14. enter_lvp and exit_lvp are idempotent transitions. In an active    *)
(* session enter_lvp changes no pin, clocks no byte and waits for nothing; *)
(* in an inactive one it drives the reset line low, waits at least 50 ms,  *)
(* clocks out the 4 bytes "MCHP", waits at least 5 ms and only then sets   *)
(* lvp_active. exit_lvp does nothing in an inactive session; in an active  *)
(* one it drives the reset line high, waits at least 5 ms and clears       *)
(* lvp_active. Nothing else changes lvp_active.                            *)
(***************************************************************************)
C14_LvpTransitions ==
    LET n == Len(bus)
    IN  /\ FlagAt(1) = rd.lvp0
        \* the flag is set only at the end of an unlock, cleared only at the end
        \* of a release
        /\ \A j \in 1..n :
             FlagAt(j) # FlagAt(j + 1) =>
                IF FlagAt(j + 1)
                  THEN j >= 4 /\ IsUnlock(bus, j - 3)
                  ELSE j >= 2 /\ IsGpio(j - 1, 1) /\ IsSleep(bus[j], 5000)
        \* the reset line goes low, and the key out, only in a whole unlock that
        \* starts in an inactive session and sets the flag at its end
        /\ \A j \in 1..n :
             IsGpio(j, 0) =>
                /\ IsUnlock(bus, j)
                /\ \A m \in j..(j + 3) : ~FlagAt(m)
                /\ FlagAt(j + 4)
        /\ \A j \in 1..n : IsKey(j) => j >= 3 /\ IsGpio(j - 2, 0)
        \* the reset line goes high only in a release that starts in an active
        \* session and clears the flag at its end
        /\ \A j \in 1..n :
             IsGpio(j, 1) =>
                /\ j + 1 <= n /\ IsSleep(bus[j + 1], 5000)
                /\ FlagAt(j) /\ FlagAt(j + 1)
                /\ ~FlagAt(j + 2)

\* TEST_EEPROM in an active session with a target present: the first enter_lvp
\* does nothing, then come three releases and two unlocks
C14_Witness ==
    /\ Handled(CMD_TEST_EEPROM) /\ rd.lvp0 /\ ~lvp_active
    /\ bus[1].k = "write" /\ bus[1].op = ICSP_COMMAND_LOAD_PC
    /\ Cardinality({ j \in 1..Len(bus) : IsGpio(j, 0) }) = 2
    /\ Cardinality({ j \in 1..Len(bus) : IsGpio(j, 1) }) = 3
    /\ Cardinality({ j \in 1..Len(bus) : IsKey(j) }) = 2

(***************************************************************************)
(* C15. After a command the session state is determined by the command:   *)
(* DIAG, ERASE, RESET_TARGET and TEST_EEPROM leave lvp_active false, on    *)
(* success and when no target answers; WRITE_PAGE, WRITE_CONFIG,           *)
(* WRITE_EEPROM and READ leave it true when their payload precondition     *)
(* holds; VERSION, unknown commands and precondition failures leave it as  *)
(* it was. This holds whatever requests came before.                       *)
(***************************************************************************)
C15_SessionAfter ==
    (IterationOver /\ rd.outcome = "done") =>
        IF req.cmd \in {CMD_DIAG, CMD_ERASE, CMD_RESET_TARGET, CMD_TEST_EEPROM}
          THEN ~lvp_active
        ELSE IF req.cmd \in {CMD_WRITE_PAGE, CMD_WRITE_CONFIG, CMD_WRITE_EEPROM, CMD_READ}
                  /\ ~C9_Fails
          THEN lvp_active
        ELSE lvp_active = rd.lvp0

\* a READ whose precondition holds, arriving in an inactive session
C15_Witness ==
    /\ Handled(CMD_READ) /\ ~C9_Fails
    /\ ~rd.lvp0 /\ lvp_active

(***************************************************************************)
(* C16. In a run of consecutive valid WRITE_PAGE requests the reset line   *)
(* is driven low and the key "MCHP" clocked out at most once, before the   *)
(* first page: a valid page leaves the session active, a page that finds   *)
(* it active does not unlock again, a page that finds it inactive unlocks  *)
(* once before anything else, and between two pages nothing but the        *)
(* handler of another command ends the session.                            *)
(***************************************************************************)
C16_PageRun ==
    [][/\ (pc = "dispatch" /\ req.cmd = CMD_WRITE_PAGE /\ req.len >= 132) =>
            /\ lvp_active'
            /\ lvp_active => Unlocks(bus') = {}
            /\ ~lvp_active => Unlocks(bus') = {1, 3} /\ IsUnlock(bus', 1)
       /\ (lvp_active /\ ~lvp_active') =>
            pc = "dispatch" /\ req.cmd # CMD_WRITE_PAGE]_vars

\* a page programmed in the session an earlier request opened: no unlock among
\* its 69 bus events
C16_Witness ==
    /\ Handled(CMD_WRITE_PAGE) /\ req.len >= 132
    /\ rd.lvp0 /\ lvp_active
    /\ Len(bus) = 69 /\ Unlocks(bus) = {}

(***************************************************************************)
(* handle_read, called with a READ payload in an active session, the       *)
(* target answering its k-th read with a word that depends on k            *)
(***************************************************************************)
MaxReadLen == 6

ReadLens == 0..MaxReadLen \cup {PROTO_MAX_PAYLOAD - 1, PROTO_MAX_PAYLOAD}

\* flash, configuration, the last address below the EEPROM, the EEPROM base, and
\* an address above 0x7FFFFFFF
ReadAddrs == {AddrFlash, AddrConfig, <<255, 255, 48, 0>>, AddrEeprom, AddrHigh}

ReadTargets ==
    { [first |-> [k \in 1..PROTO_MAX_PAYLOAD |-> Enc24((k * m + 513) % 65536)],
       rest |-> <<0, 0, 0>>] : m \in {1799, 4660} }

InitRead ==
    /\ Idle
    /\ \E a \in ReadAddrs, n \in ReadLens, t \in ReadTargets :
         u = [fn |-> "handle_read", p |-> a \o <<n % 256, n \div 256>>, tgt |-> t,
              done |-> FALSE, bus |-> <<>>, tx |-> <<>>, buf |-> <<>>]

CallHandleRead ==
    /\ u.fn = "handle_read" /\ ~u.done
    /\ LET h == handle_read([UnitHw EXCEPT !.tgt = u.tgt], Len(u.p), u.p)
       IN  u' = [u EXCEPT !.done = TRUE, !.bus = h.bus, !.tx = h.tx, !.buf = h.buf]
    /\ UNCHANGED mainvars

NextRead == CallHandleRead

SpecRead == InitRead /\ [][NextRead]_vars

(***************************************************************************)
(* C17. A valid READ of n <= 256 bytes is answered with status OK and      *)
(* exactly n payload bytes. At an address >= 0x310000: one load_pc, then   *)
(* exactly n increment-PC reads, byte i the low byte of the i-th word.     *)
(* Below: one load_pc, then exactly ceil(n/2) increment-PC reads, byte 2k  *)
(* the low and byte 2k+1 the high byte of the k-th word; for odd n the     *)
(* last byte is the low byte of the last word and its high byte is         *)
(* dropped. No buffer index >= n is written.                               *)
(***************************************************************************)
\* the k-th word the target was asked for (k from 0): events 2k+2 (the opcode)
\* and 2k+3 (the 3 bytes clocked in) of the handler
WordRead(b, k) == WordOf(b[2 * k + 3].bytes)

IsReadIncPc(b, k) ==
    /\ IsCommand(b[2 * k + 2], ICSP_COMMAND_READ_DATA_INCPC, -1)
    /\ b[2 * k + 3].k = "read"

C17_Read ==
    (u.fn = "handle_read" /\ u.done) =>
        LET n == u.p[5] + 256 * u.p[6]
            addr == Int32(u.p[1], u.p[2], u.p[3], u.p[4])
            \* addr >= 0x310000 as an unsigned 32-bit value
            eeprom == u.p[4] > 0 \/ u.p[3] >= 49
            reads == IF eeprom THEN n ELSE (n + 1) \div 2
            resp == ParseFrame(u.tx[1])
        IN  /\ Len(u.tx) = 1
            /\ resp.status = STATUS_OK /\ resp.len = n /\ resp.crc_ok
            /\ Len(resp.payload) = n
            /\ Len(u.bus) = 1 + 2 * reads
            /\ IsCommand(u.bus[1], ICSP_COMMAND_LOAD_PC, addr)
            /\ \A k \in 0..(reads - 1) : IsReadIncPc(u.bus, k)
            /\ \A j \in 0..(n - 1) :
                 resp.payload[j + 1] =
                    IF eeprom THEN WordRead(u.bus, j) % 256
                    ELSE IF j % 2 = 0 THEN WordRead(u.bus, j \div 2) % 256
                    ELSE WordRead(u.bus, j \div 2) \div 256
            /\ { u.buf[j][1] : j \in 1..Len(u.buf) } = 0..(n - 1)

\* 5 bytes read from flash: 3 words asked for, the fifth byte the low byte of
\* the third
C17_Witness ==
    /\ u.fn = "handle_read" /\ u.done
    /\ u.p = AddrFlash \o <<5, 0>>
    /\ Len(u.bus) = 7
    /\ ParseFrame(u.tx[1]).payload[5] = WordRead(u.bus, 2) % 256
    /\ WordRead(u.bus, 2) \div 256 # 0

(***************************************************************************)
(* C18. With a target present, TEST_EEPROM runs, in order: enter LVP (and  *)
(* the identity probe), bulk erase of the EEPROM only (load_pc 0x310000),  *)
(* exit and re-enter, load_pc(0x310000) then for each of the pattern bytes *)
(* BB CC DD EE a non-incrementing write_data, a wait of at least 11 ms and *)
(* one increment_pc, exit and re-enter, load_pc(0x310000) then 4           *)
(* increment-PC reads, exit; the answer is status OK with one payload      *)
(* byte, 1 exactly when the low bytes of the 4 words read are the pattern  *)
(* in order, else 0.                                                       *)
(***************************************************************************)
XGpio(level) == [k |-> "gpio", bytes |-> <<>>, arg |-> 0, op |-> level]

\* a read is expected to clock in whatever the target answers
XRead(j) == [k |-> "read", bytes |-> (IF j <= Len(bus) THEN bus[j].bytes ELSE <<>>),
             arg |-> 0, op |-> 0]

XEnter == <<XGpio(0), XSleep(50000), XWrite(KeyMCHP), XSleep(5000)>>

XExit == <<XGpio(1), XSleep(5000)>>

XLoadPc(a) == XWrite(<<128>> \o Enc24(a))

\* write_data(b, false): load-data, begin-programming, its own short wait
XPatternByte(b) ==
    <<XWrite(<<0>> \o Enc24(b)), XWrite(<<224>>), XSleep(75),
      XSleep(11000), XWrite(<<248>>)>>

\* the events expected of TEST_EEPROM once the session is open; the reads are
\* the events 4 and 45, 47, 49, 51
XTestEeprom(at) ==
    <<XLoadPc(4194302), XSleep(1), XWrite(<<252>>), XRead(at + 4)>>
      \o <<XLoadPc(3211264), XWrite(<<24>>), XSleep(26000)>>
      \o XExit \o <<XSleep(10000)>> \o XEnter
      \o <<XLoadPc(3211264)>>
      \o XPatternByte(187) \o XPatternByte(204) \o XPatternByte(221) \o XPatternByte(238)
      \o XExit \o <<XSleep(10000)>> \o XEnter
      \o <<XLoadPc(3211264)>>
      \o <<XWrite(<<254>>), XRead(at + 45), XWrite(<<254>>), XRead(at + 47),
           XWrite(<<254>>), XRead(at + 49), XWrite(<<254>>), XRead(at + 51)>>
      \o XExit

ProbedPresent ==
    /\ Handled(CMD_TEST_EEPROM)
    /\ ReadAt # {}
    /\ NthRead(1) \notin {0, 65535}

PatternReadBack ==
    <<NthRead(2) % 256, NthRead(3) % 256, NthRead(4) % 256, NthRead(5) % 256>>
      = <<187, 204, 221, 238>>

C18_TestEeprom ==
    ProbedPresent =>
        /\ BusMatches(bus, IF rd.lvp0 THEN XTestEeprom(0) ELSE XEnter \o XTestEeprom(4))
        /\ Cardinality(ReadAt) = 5
        /\ Len(tx) = 1
        /\ ParseFrame(tx[1]) =
             [status |-> STATUS_OK, len |-> 1,
              payload |-> <<IF PatternReadBack THEN 1 ELSE 0>>, crc_ok |-> TRUE]

\* the third byte reads back as 0xDC: the answer is 0
C18_Witness ==
    /\ ProbedPresent /\ ~rd.lvp0
    /\ NthRead(4) % 256 = 220 /\ NthRead(2) % 256 = 187
    /\ ParseFrame(tx[1]).payload = <<0>>
    /\ Len(bus) = 57

(***************************************************************************)
(* C19. When getchar() reports an error on the command byte, on a length   *)
(* byte, on a payload byte or on the CRC byte of a frame with len <= 256,  *)
(* proto_read_request returns false: no response frame is written, no      *)
(* command is dispatched and no hardware is touched for that frame.        *)
(***************************************************************************)
\* the transport has failed during the current read, outside the drain loop of
\* an oversized frame
ReadFailed == ~link /\ rd.outcome # "oversize"

C19_ReadError ==
    /\ [](ReadFailed =>
            /\ tx = <<>> /\ NoHardware
            /\ pc # "dispatch" /\ rd.outcome \in {"reading", "error"}
            \* still inside the call only between the two length bytes
            /\ rd.outcome = "reading" => pc = "read_hi" /\ lo < 0)
    /\ [][ReadFailed => (pc' # "dispatch" /\ (pc' = "read_cmd" => rd'.outcome = "error"))]_vars
    /\ [][(link /\ ~link' /\ pc \in {"read_cmd", "read_hi", "read_payload"}) =>
             (pc' = "read_cmd" /\ rd'.outcome = "error" /\ tx' = <<>>)]_vars

\* the read error falls on the CRC byte of a complete WRITE_PAGE request, in an
\* active session
C19_Witness ==
    /\ IterationOver /\ rd.outcome = "error" /\ ~link
    /\ req.cmd = CMD_WRITE_PAGE /\ req.len = 132 /\ Len(payload) = 132
    /\ rd.lvp0 /\ lvp_active /\ tx = <<>>

(***************************************************************************)
(* C20. Every load_pc the dispatcher issues is 4 bytes on the bus: 0x80    *)
(* and the encoding ((a>>15)&0xFF, (a>>7)&0xFF, (a<<1)&0xFF) of its        *)
(* address a, for every 32-bit address field of a WRITE_PAGE,              *)
(* WRITE_CONFIG, WRITE_EEPROM or READ payload; the only writes of a single *)
(* byte are the opcodes without payload (bulk erase, page erase, increment *)
(* address, begin programming, and the two read-data opcodes).             *)
(***************************************************************************)
\* the encoding of the address field payload[0..3], from its bytes
AddrFieldBytes ==
    <<((payload[2] \div 128) + 2 * payload[3]) % 256,
      ((payload[1] \div 128) + 2 * payload[2]) % 256,
      (2 * payload[1]) % 256>>

\* where the request wrote a load_pc
LoadPcAt == { j \in 1..Len(bus) : bus[j].k = "write" /\ bus[j].op = ICSP_COMMAND_LOAD_PC }

\* a request with an address field was handled and its precondition held
Addressed ==
    /\ IterationOver /\ rd.outcome = "done"
    /\ req.cmd \in {CMD_WRITE_PAGE, CMD_WRITE_CONFIG, CMD_WRITE_EEPROM, CMD_READ}
    /\ ~C9_Fails

LoadPcWellFormed ==
    /\ \A j \in LoadPcAt : Len(bus[j].bytes) = 4
    /\ \A j \in 1..Len(bus) :
         (bus[j].k = "write" /\ Len(bus[j].bytes) = 1) =>
            bus[j].op \in {ICSP_COMMAND_BULK_ERASE, ICSP_COMMAND_PAGE_ERASE,
                           ICSP_COMMAND_INCREMENT_ADDRESS, ICSP_COMMAND_BEGIN_PROG_INT,
                           ICSP_COMMAND_READ_DATA, ICSP_COMMAND_READ_DATA_INCPC}
    /\ (Addressed /\ LoadPcAt # {}) =>
         LET first == CHOOSE j \in LoadPcAt : \A m \in LoadPcAt : j <= m
         IN  bus[first].bytes = <<128>> \o AddrFieldBytes

C20_LoadPcEncoding == LoadPcWellFormed

\* the same for the requests whose address field is below 0x80000000, which is
\* positive as the int icsp_send_command takes
C20_LoadPcEncodingBelow2G ==
    (Addressed => payload[4] < 128) => LoadPcWellFormed

(***************************************************************************)
(* C21. Whatever requests came before, an ICSP command (load_pc, bulk      *)
(* erase, page erase, read data, load data, increment address, begin       *)
(* programming) is clocked only while lvp_active is true: every handler    *)
(* keeps the contract the engine does not enforce, across the exit and     *)
(* re-enter steps of TEST_EEPROM and in a session an earlier request left  *)
(* active.                                                                 *)
(***************************************************************************)
\* the events that clock a command or its answer: every write but the key, and
\* every read
CommandAt ==
    { j \in 1..Len(bus) : (bus[j].k = "write" /\ ~IsKey(j)) \/ bus[j].k = "read" }

C21_CommandsWhileActive ==
    /\ \A j \in CommandAt : bus[j].lvp
    /\ \A j \in CommandAt :
         bus[j].k = "write" =>
            bus[j].op \in {ICSP_COMMAND_LOAD_PC, ICSP_COMMAND_BULK_ERASE,
                           ICSP_COMMAND_PAGE_ERASE, ICSP_COMMAND_READ_DATA,
                           ICSP_COMMAND_READ_DATA_INCPC, ICSP_COMMAND_INCREMENT_ADDRESS,
                           ICSP_COMMAND_LOAD_DATA, ICSP_COMMAND_LOAD_DATA_INCPC,
                           ICSP_COMMAND_BEGIN_PROG_INT}

\* TEST_EEPROM from an inactive session, a target present: 22 commands and 5
\* reads, in three sessions
C21_Witness ==
    /\ Handled(CMD_TEST_EEPROM) /\ ~rd.lvp0 /\ ~lvp_active
    /\ Cardinality(CommandAt) = 27
    /\ Cardinality({ j \in 1..Len(bus) : IsKey(j) }) = 3

(***************************************************************************)
(* target_identify and target_flash_size                                   *)
(***************************************************************************)
\* device IDs: no mask of the table has one of its low five bits set, so a lookup
\* depends on device_id >> 5 alone; the first and the last ID of each of the 2048
\* classes, and every ID from 0x6C00 to 0x6CFF and from 0x74E0 to 0x765F
DeviceIds ==
    { 32 * k : k \in 0..2047 } \cup { 32 * k + 31 : k \in 0..2047 }
      \cup (27648..27903) \cup (29920..30303)

InitCatalog ==
    /\ Idle
    /\ \E d \in DeviceIds :
         u = [fn |-> "target", device_id |-> d, named |-> FALSE, name |-> <<>>,
              sized |-> FALSE, size |-> 0]

CallIdentify ==
    /\ u.fn = "target" /\ ~u.named
    /\ u' = [u EXCEPT !.named = TRUE, !.name = target_identify(u.device_id)]
    /\ UNCHANGED mainvars

CallFlashSize ==
    /\ u.fn = "target" /\ ~u.sized
    /\ u' = [u EXCEPT !.sized = TRUE, !.size = target_flash_size(u.device_id)]
    /\ UNCHANGED mainvars

NextCatalog == CallIdentify \/ CallFlashSize

SpecCatalog == InitCatalog /\ [][NextCatalog]_vars

\* both lookups of one device ID have returned
LookedUp == u.fn = "target" /\ u.named /\ u.sized

\* the entries whose masked ID equals the masked device ID
Matching(device_id) ==
    { k \in 1..TARGET_COUNT :
        BitAnd(device_id, targets[k].mask) = BitAnd(targets[k].id, targets[k].mask) }

\* the two lookups return the fields of one entry, the first that matches, and
\* "Unknown" and 0 exactly when none matches
FirstMatchWins ==
    LookedUp =>
        /\ Matching(u.device_id) # {} =>
             \E k \in Matching(u.device_id) :
                /\ \A j \in Matching(u.device_id) : k <= j
                /\ u.name = targets[k].name
                /\ u.size = targets[k].flash_size
        /\ u.name = NameUnknown <=> Matching(u.device_id) = {}
        /\ u.size = 0 <=> Matching(u.device_id) = {}

\* an entry looked up by its own ID is the entry returned
FoundByOwnId ==
    LookedUp =>
        \A k \in 1..TARGET_COUNT :
            u.device_id = targets[k].id =>
                u.name = targets[k].name /\ u.size = targets[k].flash_size

(***************************************************************************)
(* C22. The catalog lookup is first-match over the table with the rule     *)
(* (device_id & mask) == (id & mask); target_identify and target_flash_size*)
(* select the same entry for every 16-bit device ID and return "Unknown"   *)
(* and 0 exactly when no entry matches; and every entry of the table is    *)
(* found by its own ID: target_identify(e.id) is e.name and                *)
(* target_flash_size(e.id) is e.flash_size.                                *)
(***************************************************************************)
C22_CatalogLookup == FirstMatchWins /\ FoundByOwnId

\* the part of C22 that every device ID satisfies: first match, one entry for
\* both lookups, "Unknown" and 0 exactly without a match
C22_FirstMatchOnly == FirstMatchWins

\* the entries whose own ID returns another entry's name or size
C22_ShadowedEntries ==
    { k \in 1..TARGET_COUNT :
        \/ target_identify(targets[k].id) # targets[k].name
        \/ target_flash_size(targets[k].id) # targets[k].flash_size }

\* the Q41 and Q40 entries, and the first two, are found by their own IDs
C22_FoundByOwnIdUnshadowed ==
    LookedUp =>
        \A k \in (1..TARGET_COUNT) \ {3, 4, 5, 6, 7, 8} :
            u.device_id = targets[k].id =>
                u.name = targets[k].name /\ u.size = targets[k].flash_size

====
